---- MODULE Spec2Model ----
(***************************************************************************)
(* zerodi: the Provider lifecycle engine (packages/zerodi/src/index.ts).   *)
(*                                                                         *)
(* Every call of an async function is a promise: one record of `proms`.    *)
(* A call runs synchronously up to its first `await` (the *Enter           *)
(* operators, composed inside the step of whoever makes the call) and is   *)
(* resumed by one action per `await` once the awaited promise has settled. *)
(* The three Maps of a Provider are functions whose DOMAIN is the key set. *)
(*                                                                         *)
(* The generator (packages/zerodi/src/cli.ts, generate) is the record      *)
(* `cli`: the declarations it discovered, the cycles its traversal         *)
(* recorded and what it wrote to the output path.                          *)
(*                                                                         *)
(* `resolver` is the static Provider.get: the function the class is        *)
(* declared with, or the one the generated registry assigns to it.         *)
(***************************************************************************)
EXTENDS Integers, Sequences, FiniteSets, TLC

VARIABLES config, instances, destroying, counts, proms, cli, resolver

vars == <<config, instances, destroying, counts, proms, cli, resolver>>

\* ------------------------------------------------------------------ bounds

\* Calls the application makes in one run: of get, dispose and destroy, at
\* any time (Spec) or one after another (SpecSeq); of those and use (SpecUse).
MaxCalls == 3
MaxSeqCalls == 5
MaxUseCalls == 2
\* Calls of get, dispose, destroy and use on any buildId, one after another
\* (SpecScope).
MaxScopeCalls == 2
\* Calls of get, dispose and destroy on two buildIds, at any time (SpecIso).
MaxIsoCalls == 3
\* Calls of get, dispose and destroy on Providers with dependencies, at any
\* time (SpecDeps) or one after another (SpecDepsSeq).
MaxDepCalls == 2
MaxDepSeqCalls == 3
\* Calls of get on Providers that share a dependency, at any time (SpecShare).
MaxShareCalls == 2
\* Calls of useProviders, at any time (SpecUseAll).
MaxUseAllCalls == 2
\* Dependencies one provider declaration lists (SpecCli).
MaxDeps == 2
\* Calls of get while the resolver may not be installed (SpecHook).
MaxHookCalls == 3
\* Calls of getProviders by the application (SpecResolve).
MaxResolveCalls == 2
\* Calls of startProviders by the application (SpecStart).
MaxStartCalls == 1
\* Concurrent calls on a Provider that may keep its instances (SpecCount).
MaxCountCalls == 3
\* Concurrent calls on a Provider with one or two dependency names (SpecOrder).
MaxOrderCalls == 2

\* ------------------------------------------------------------- input values

Undef == "undefined"
Singleton == "singleton"
BuildIds == {Undef, "a", "b"}
CoreIds == {"a"}
IsoIds == {"a", "b"}

\* One Provider is created with one of these configurations (ProviderConfig).
\* deps lists, in the order of the object literal, each local name with the
\* key of the Provider it names.
CfgDeps(sg, ddd, hd, deps) ==
    [singleton |-> sg, disableDisposeDestroy |-> ddd, hasDestroy |-> hd, deps |-> deps]
Cfg(sg, ddd, hd) == CfgDeps(sg, ddd, hd, << >>)
Dep(name, key) == [name |-> name, key |-> key]
\* config.deps && Object.keys(config.deps).length > 0
HasDeps(cfg) == Len(cfg.deps) > 0
CoreConfigs == {[svc |-> Cfg(FALSE, FALSE, hd)] : hd \in BOOLEAN}
ScopeConfigs == {[svc |-> Cfg(sg, FALSE, TRUE)] : sg \in BOOLEAN}
\* A Provider svc that declares the dependency db.
PairConfigs ==
    {[db |-> Cfg(FALSE, FALSE, TRUE),
      svc |-> CfgDeps(FALSE, FALSE, TRUE, <<Dep("db", "db")>>)]}
\* Two Providers, svc and api, that both declare the dependency db.
DepConfigs ==
    {[db |-> Cfg(FALSE, FALSE, TRUE),
      svc |-> CfgDeps(FALSE, FALSE, TRUE, <<Dep("db", "db")>>),
      api |-> CfgDeps(FALSE, FALSE, TRUE, <<Dep("store", "db")>>)]}
\* svc declares db once, or twice under two names.
TwinConfigs ==
    PairConfigs \cup
    {[db |-> Cfg(FALSE, FALSE, TRUE),
      svc |-> CfgDeps(FALSE, FALSE, hd, <<Dep("db", "db"), Dep("replica", "db")>>)] :
        hd \in BOOLEAN}
\* What the application passes to useProviders as keys.
KeyMaps == {<<Dep("s", "svc"), Dep("d", "db")>>}
UseAllIds == {Undef, "a"}
\* The caller of useProviders, which is a function of no Provider.
App == "app"
KeepConfigs == {[svc |-> Cfg(FALSE, ddd, TRUE)] : ddd \in BOOLEAN}

\* api depends on svc and svc on db.
StartConfigs ==
    {[db |-> Cfg(FALSE, FALSE, TRUE),
      svc |-> CfgDeps(FALSE, FALSE, TRUE, <<Dep("db", "db")>>),
      api |-> CfgDeps(FALSE, FALSE, TRUE, <<Dep("s", "svc")>>)]}
\* The declarations in the order the generator met them.
StartOrder == <<"api", "db", "svc">>

\* What the application may pass to getProviders: local names x and y, each
\* or none, for a Provider's key or any other string.
RequestKeys == {"db", "svc", "constructor"}
Requests ==
    {<< >>} \cup {<<Dep(n, k)>> : n \in {"x", "y"}, k \in RequestKeys}
            \cup {<<Dep("x", k1), Dep("y", k2)>> : k1 \in RequestKeys, k2 \in RequestKeys}

\* The keys of the provider declarations the generator may discover.
DeclKeys == {"A", "B", "C"}

\* ------------------------------------------------------------------ helpers

\* Map.set / Map.delete / (Map.get(k) || 0)
MapSet(m, k, v) == [x \in (DOMAIN m) \cup {k} |-> IF x = k THEN v ELSE m[x]]
MapDelete(m, k) == [x \in (DOMAIN m) \ {k} |-> m[x]]
MapHas(m, k) == k \in DOMAIN m
EmptyMap == [x \in {} |-> 0]

\* No clamp: the first argument whatever the second.
Unclamped(a, b) == a

Max(a, b) == IF a >= b THEN a ELSE b

NoErr == [k |-> "none", id |-> 0]
Err(kind, id) == [k |-> kind, id |-> id]

\* ----------------------------------------------------------- Resolver Hook

\* What a call of the static Provider.get settles to: a rejection, or the
\* Providers under the local names of keys.
NotCalled == [called |-> FALSE, err |-> NoErr, providers |-> << >>]
Rejected(e) == [called |-> TRUE, err |-> e, providers |-> << >>]
Resolved(ps) == [called |-> TRUE, err |-> NoErr, providers |-> ps]

\* The Provider.get of the class declaration: it throws.
NotInitialized == [installed |-> FALSE, loaders |-> EmptyMap, eager |-> << >>]
\* The Provider.get the generated registry installs: loaders is its
\* `providers` object, key -> the Provider its loader imports.
Generated(loaders) == [installed |-> TRUE, loaders |-> loaders, eager |-> << >>]
\* The same registry generated from declarations of which those of the keys
\* eager have `eager: true`: providersEager lists them, 'key': 'key'.
GeneratedEager(loaders, eager) == [Generated(loaders) EXCEPT !.eager = eager]
providersEager(res) == [i \in 1..Len(res.eager) |-> Dep(res.eager[i], res.eager[i])]

\* `providers` is an object literal: a key it does not define is looked up
\* in Object.prototype.  Of its members, constructor: the function Object,
\* which called without arguments returns a new empty object.
EmptyObject == "{}"
ObjectPrototype == [constructor |-> EmptyObject]

\* providers[providerKey] and, when it is not falsy, what `await importFn()`
\* gives.
Lookup(loaders, key) ==
    IF MapHas(loaders, key) THEN <<loaders[key]>>
    ELSE IF key \in DOMAIN ObjectPrototype THEN <<ObjectPrototype[key]>>
    ELSE << >>

\* The generated Provider.get(keys): 'not found' for the first key, in the
\* order of the entries, whose lookup is falsy; else what every lookup
\* loaded.
GeneratedGet(loaders, keys) ==
    LET missing == {i \in 1..Len(keys) : Lookup(loaders, keys[i].key) = << >>}
    IN IF missing # {}
       THEN Rejected(Err("notfound", CHOOSE i \in missing : \A j \in missing : i <= j))
       ELSE Resolved([i \in 1..Len(keys) |->
                          Dep(keys[i].name, Lookup(loaders, keys[i].key)[1])])

\* A getProviders that resolves whatever Provider.get is in place.
getProvidersAlways(res, keys) == Resolved(keys)

\* getProviders(keys): the Provider.get in place when it is called.
getProviders(res, keys) ==
    IF res.installed THEN GeneratedGet(res.loaders, keys)
    ELSE Rejected(Err("uninit", 0))

\* A promise: the call of an async function.
\*   k    get | dispose | destroy | use | build | teardown
\*   arg  the buildId the caller passed, bid the effective one
\*   pc   where the call is suspended, w the promise it awaits
\*   st   pend | ok | fail, val the value, err the rejection
\*   top  called by the application; quiet: no other application call was
\*        pending when it was made
\*   run  the user callback of the call (factory, destroy callback, use fn)
\*        has been invoked
\*   wd   get: the destroy promise it waited for at line 620 (0: none),
\*        wdp: that promise was still pending when get was called
\*   had  get, destroy: the build cached for bid when it was called (0: none)
\*   fnres use: how the callback settled; c1, c2: its get and dispose calls
\*   ch   build: the get calls it made on its dependencies, in deps order,
\*        dv: the instances it passed to the factory as deps
\*   ds   destroy: the dispose calls it made on its dependencies
\*   keys useProviders: its first argument, as a deps list; ch, dv, ds: its
\*        get calls, the instances it passed to fn, its dispose calls
\*   hook build, teardown, useProviders: what its call of getProviders
\*        settles to
Promise(k, p, arg, bid, top) ==
    [k |-> k, p |-> p, arg |-> arg, bid |-> bid, top |-> top, quiet |-> FALSE,
     pc |-> "new", w |-> 0, st |-> "pend", val |-> 0, err |-> NoErr,
     run |-> FALSE, wd |-> 0, wdp |-> FALSE, had |-> 0, fnres |-> "none", c1 |-> 0, c2 |-> 0,
     ch |-> << >>, dv |-> << >>, ds |-> << >>, keys |-> << >>, hook |-> NotCalled]

\* The program state the *Enter operators transform.
State ==
    [cfg |-> config, inst |-> instances, dstr |-> destroying, cnt |-> counts, pr |-> proms,
     res |-> resolver]

Install(S) ==
    /\ instances' = S.inst
    /\ destroying' = S.dstr
    /\ counts' = S.cnt
    /\ proms' = S.pr
    /\ UNCHANGED <<config, cli, resolver>>

New(S, rec) == [S EXCEPT !.pr = Append(@, rec)]
Last(S) == Len(S.pr)

Fulfil(S, i, v) ==
    [S EXCEPT !.pr[i].st = "ok", !.pr[i].val = v, !.pr[i].pc = "done"]
Reject(S, i, e) ==
    [S EXCEPT !.pr[i].st = "fail", !.pr[i].err = e, !.pr[i].pc = "done"]
\* `return await x` / `await x` with nothing after it: the outcome of x.
SettleAs(S, i, j) ==
    IF S.pr[j].st = "ok" THEN Fulfil(S, i, S.pr[j].val) ELSE Reject(S, i, S.pr[j].err)

Settled(i) == proms[i].st # "pend"
Ids == 1..Len(proms)

\* A call whose last await is `await x` with only the return after it
\* returns, to the caller that awaits it, what x settled to: the caller's
\* step settles it.  Returns: the call has returned or can return now.
Returns(i) ==
    \/ Settled(i)
    \/ proms[i].pc \in {"get_wi", "dispose_w", "destroy_w"} /\ Settled(proms[i].w)
Return(S, i) == IF S.pr[i].st # "pend" THEN S ELSE SettleAs(S, i, S.pr[i].w)
\* What call i returns or, if it can return now, will.
Outcome(i) == IF Settled(i) THEN proms[i].st ELSE proms[proms[i].w].st
\* Promise.all fulfils: every call of ids returns.
ReturnAll(S, ids) ==
    LET F[n \in 0..Len(ids)] == IF n = 0 THEN S ELSE Return(F[n - 1], ids[n])
    IN F[Len(ids)]

\* ------------------------------------------------------------ parseBuildId

\* A parseBuildId that forgets the singleton flag.
parseBuildIdNoSingleton(cfg, params) ==
    IF params = Undef THEN Singleton ELSE params

parseBuildId(cfg, params) ==
    IF cfg.singleton \/ params = Undef THEN Singleton ELSE params

\* ------------------------------------------------------------------- build

\* build(buildId) up to its first await: of getProviders when the Provider
\* declares dependencies, else of config.build, which is called at once.
BuildEnter(S, p, buildId) ==
    LET bId == parseBuildId(S.cfg[p], buildId)
        rec == IF HasDeps(S.cfg[p])
               THEN [Promise("build", p, buildId, bId, FALSE) EXCEPT
                        !.pc = "b_prov", !.hook = getProviders(S.res, S.cfg[p].deps)]
               ELSE [Promise("build", p, buildId, bId, FALSE) EXCEPT !.pc = "b_run", !.run = TRUE]
    IN New(S, rec)

\* ---------------------------------------------------------------------- get

\* A get that starts a build whether or not one is cached.
GetBodyNoCache(S, g) ==
    LET p == S.pr[g].p
        bId == S.pr[g].bid
        Sb == BuildEnter(S, p, bId)
        S1 == [Sb EXCEPT !.inst[p] = MapSet(@, bId, Last(Sb))]
        old == IF MapHas(S1.cnt[p], bId) THEN S1.cnt[p][bId] ELSE 0
    IN [S1 EXCEPT !.cnt[p] = MapSet(@, bId, old + 1),
                  !.pr[g].pc = "get_wi", !.pr[g].w = Last(Sb)]

\* A get that does not count.
GetBodyNoCount(S, g) ==
    LET p == S.pr[g].p
        bId == S.pr[g].bid
        S1 == IF MapHas(S.inst[p], bId)
              THEN S
              ELSE LET Sb == BuildEnter(S, p, bId)
                   IN [Sb EXCEPT !.inst[p] = MapSet(@, bId, Last(Sb))]
    IN [S1 EXCEPT !.pr[g].pc = "get_wi", !.pr[g].w = S1.inst[p][bId]]

\* A get that counts only the build it starts.
GetBodyCountOnBuild(S, g) ==
    LET p == S.pr[g].p
        bId == S.pr[g].bid
    IN IF MapHas(S.inst[p], bId)
       THEN [S EXCEPT !.pr[g].pc = "get_wi", !.pr[g].w = S.inst[p][bId]]
       ELSE LET Sb == BuildEnter(S, p, bId)
            IN [Sb EXCEPT !.inst[p] = MapSet(@, bId, Last(Sb)),
                          !.cnt[p] = MapSet(@, bId, 1),
                          !.pr[g].pc = "get_wi", !.pr[g].w = Last(Sb)]

\* get, lines 622-634: look the build up or start it, count, await it.
GetBody(S, g) ==
    LET p == S.pr[g].p
        bId == S.pr[g].bid
        S1 == IF MapHas(S.inst[p], bId)
              THEN S
              ELSE LET Sb == BuildEnter(S, p, bId)
                   IN [Sb EXCEPT !.inst[p] = MapSet(@, bId, Last(Sb))]
        instance == S1.inst[p][bId]
        old == IF MapHas(S1.cnt[p], bId) THEN S1.cnt[p][bId] ELSE 0
    IN [S1 EXCEPT !.cnt[p] = MapSet(@, bId, old + 1),
                  !.pr[g].pc = "get_wi", !.pr[g].w = instance]

\* A get that does not look at the destroys in flight.
GetEnterNoWait(S, p, buildId, top) ==
    LET bId == parseBuildId(S.cfg[p], buildId)
        S1 == New(S, [Promise("get", p, buildId, bId, top) EXCEPT
                         !.had = IF MapHas(S.inst[p], bId) THEN S.inst[p][bId] ELSE 0])
        S2 == GetBody(S1, Last(S1))
    IN IF MapHas(S.dstr[p], bId)
       THEN [S2 EXCEPT !.pr[Last(S1)].wd = S.dstr[p][bId],
                       !.pr[Last(S1)].wdp = (S.pr[S.dstr[p][bId]].st = "pend")]
       ELSE S2

\* get, lines 617-620, then the rest when no destroy is recorded.
GetEnter(S, p, buildId, top) ==
    LET bId == parseBuildId(S.cfg[p], buildId)
        S1 == New(S, [Promise("get", p, buildId, bId, top) EXCEPT
                         !.had = IF MapHas(S.inst[p], bId) THEN S.inst[p][bId] ELSE 0])
        g == Last(S1)
    IN IF MapHas(S.dstr[p], bId)
       THEN LET d == S.dstr[p][bId]
            IN [S1 EXCEPT !.pr[g].pc = "get_wd", !.pr[g].w = d, !.pr[g].wd = d,
                          !.pr[g].wdp = (S.pr[d].st = "pend")]
       ELSE GetBody(S1, g)

\* ------------------------------------------------------------------ destroy

\* Deletes that clear the three Maps.
CleanupAll(S, p, bId) ==
    [S EXCEPT !.inst[p] = EmptyMap, !.cnt[p] = EmptyMap, !.dstr[p] = EmptyMap]

\* The three deletes that end the async function of destroy.
Cleanup(S, p, bId) ==
    [S EXCEPT !.inst[p] = MapDelete(@, bId),
              !.cnt[p] = MapDelete(@, bId),
              !.dstr[p] = MapDelete(@, bId)]

\* A destroy that does not await the build: it deletes at once.
TeardownEnterNoAwait(S, p, bId) ==
    LET S1 == New(S, Promise("teardown", p, bId, bId, FALSE))
    IN Fulfil(Cleanup(S1, p, bId), Last(S1), 0)

\* The async function of destroy (lines 682-702) up to its first await.
TeardownEnter(S, p, bId) ==
    LET S1 == New(S, Promise("teardown", p, bId, bId, FALSE))
        t == Last(S1)
    IN IF ~MapHas(S.inst[p], bId)
       THEN Fulfil(S1, t, 0)
       ELSE [S1 EXCEPT !.pr[t].pc = "t_inst", !.pr[t].w = S.inst[p][bId]]

\* A destroy that starts a new execution whatever is in flight.
DestroyPromiseAlways(S, p, bId) ==
    LET S1 == TeardownEnter(S, p, bId)
    IN [S1 EXCEPT !.dstr[p] = MapSet(@, bId, Last(S1))]

\* destroy, lines 678-705: the promise the caller will await.
\* Returns the state and leaves the promise's id in dstr[p][bId].
DestroyPromise(S, p, bId) ==
    IF MapHas(S.dstr[p], bId)
    THEN S
    ELSE LET S1 == TeardownEnter(S, p, bId)
         IN [S1 EXCEPT !.dstr[p] = MapSet(@, bId, Last(S1))]

DestroyEnter(S, p, buildId, top) ==
    LET bId == parseBuildId(S.cfg[p], buildId)
        S1 == New(S, Promise("destroy", p, buildId, bId, top))
        x == Last(S1)
        S2 == DestroyPromise(S1, p, bId)
    IN [S2 EXCEPT !.pr[x].pc = "destroy_w", !.pr[x].w = S2.dstr[p][bId],
                  !.pr[x].had = IF MapHas(S.inst[p], bId) THEN S.inst[p][bId] ELSE 0]

\* ------------------------------------------------------------------ dispose

\* A dispose that destroys whatever count is left.
DisposeEnterAlways(S, p, buildId, top) ==
    LET bId == parseBuildId(S.cfg[p], buildId)
        S1 == New(S, Promise("dispose", p, buildId, bId, top))
        d == Last(S1)
        count == IF MapHas(S.cnt[p], bId) THEN S.cnt[p][bId] ELSE 0
        nextCount == Max(count - 1, 0)
        S2 == [S1 EXCEPT !.cnt[p] = MapSet(@, bId, nextCount)]
        S3 == DestroyPromise(S2, p, parseBuildId(S.cfg[p], bId))
    IN [S3 EXCEPT !.pr[d].pc = "dispose_w", !.pr[d].w = S3.dstr[p][bId]]

\* A dispose that does not look at disableDisposeDestroy.
DisposeEnterIgnoreFlag(S, p, buildId, top) ==
    LET bId == parseBuildId(S.cfg[p], buildId)
        S1 == New(S, Promise("dispose", p, buildId, bId, top))
        d == Last(S1)
        count == IF MapHas(S.cnt[p], bId) THEN S.cnt[p][bId] ELSE 0
        nextCount == Max(count - 1, 0)
        S2 == [S1 EXCEPT !.cnt[p] = MapSet(@, bId, nextCount)]
    IN IF nextCount > 0
       THEN Fulfil(S2, d, 0)
       ELSE LET S3 == DestroyPromise(S2, p, parseBuildId(S.cfg[p], bId))
            IN [S3 EXCEPT !.pr[d].pc = "dispose_w", !.pr[d].w = S3.dstr[p][bId]]

\* dispose, lines 637-649, up to its await.
DisposeEnter(S, p, buildId, top) ==
    LET bId == parseBuildId(S.cfg[p], buildId)
        S1 == New(S, Promise("dispose", p, buildId, bId, top))
        d == Last(S1)
        count == IF MapHas(S.cnt[p], bId) THEN S.cnt[p][bId] ELSE 0
        nextCount == Max(count - 1, 0)
        S2 == [S1 EXCEPT !.cnt[p] = MapSet(@, bId, nextCount)]
    IN IF nextCount > 0 \/ S.cfg[p].disableDisposeDestroy
       THEN Fulfil(S2, d, 0)
       ELSE LET S3 == DestroyPromise(S2, p, parseBuildId(S.cfg[p], bId))
            IN [S3 EXCEPT !.pr[d].pc = "dispose_w", !.pr[d].w = S3.dstr[p][bId]]

\* ---------------------------------------------------------------------- use

UseEnter(S, p, buildId, top) ==
    LET bId == parseBuildId(S.cfg[p], buildId)
        S1 == New(S, Promise("use", p, buildId, bId, top))
        u == Last(S1)
        S2 == GetEnter(S1, p, bId, FALSE)
    IN [S2 EXCEPT !.pr[u].pc = "use_get", !.pr[u].w = u + 1, !.pr[u].c1 = u + 1]

\* ------------------------------------------------------------ dependencies

\* deps.map(async (provider) => provider.get(bId) / provider.dispose(bId)):
\* the calls are made one after the other, each up to its first await.
\* S is the state they leave and ids the promises of the calls.
CallEach(kind, S, deps, bId) ==
    LET F[n \in 0..Len(deps)] ==
            IF n = 0 THEN [S |-> S, ids |-> << >>]
            ELSE LET S0 == F[n - 1].S
                     S1 == IF kind = "get"
                           THEN GetEnter(S0, deps[n].key, bId, FALSE)
                           ELSE DisposeEnter(S0, deps[n].key, bId, FALSE)
                 IN [S |-> S1, ids |-> Append(F[n - 1].ids, Last(S0) + 1)]
    IN F[Len(deps)]

\* A destroy that leaves the dependencies alone.
AfterCallbackNoDeps(S, t) ==
    Fulfil(Cleanup(S, S.pr[t].p, S.pr[t].bid), t, S.pr[t].val)

\* destroy after config.destroy (lines 689-701): the dependencies are
\* disposed of if there are any, else the deletes follow.
AfterCallback(S, t) ==
    IF HasDeps(S.cfg[S.pr[t].p])
    THEN [S EXCEPT !.pr[t].pc = "t_prov",
                   !.pr[t].hook = getProviders(S.res, S.cfg[S.pr[t].p].deps)]
    ELSE Fulfil(Cleanup(S, S.pr[t].p, S.pr[t].bid), t, S.pr[t].val)

\* ---------------------------------------------------------------- generator

\* Object.values(content.deps): up to MaxDeps keys, declared or not, the
\* same key under two names included.
DepLists == UNION {[1..k -> DeclKeys] : k \in 0..MaxDeps}

\* The keys of the declarations, in the order the scan meets them.
KeyOrders ==
    {q \in UNION {[1..k -> DeclKeys] : k \in 0..Cardinality(DeclKeys)} :
        \A i, j \in DOMAIN q : q[i] = q[j] => i = j}

\* The sets and lists dfs works on, as generate creates them.
DfsStart == [cycles |-> << >>, visited |-> {}, recursionStack |-> {}, path |-> << >>]

\* No generator runs.
\*   st      the sets and lists of the traversal while it is made call by call
\*   frames  the calls of dfs in progress, outermost first: the key of each
\*           and the position of its loop over the dependencies
\*   root    the position of the loop over the declarations
CliIdle == [pc |-> "idle", contents |-> << >>, cycles |-> << >>, out |-> << >>,
            stderr |-> << >>, exit |-> << >>,
            st |-> DfsStart, frames |-> << >>, root |-> 0]

\* The exit status of a node process whose event loop has drained: 1 when a
\* promise was rejected and nothing handled the rejection, process.exitCode
\* (never assigned by cli.ts, so 0) otherwise.
ExitStatus(rejected, handled) == IF rejected /\ ~handled THEN 1 ELSE 0

\* The registry generateOutput makes of no provider, and of contents: one
\* loader per row.
Placeholder == [providerMap |-> << >>]
Registry(contents) == [providerMap |-> [i \in 1..Len(contents) |-> contents[i].key]]

\* graph: contents.reduce(... result.set(content.key, deps) ...)
Graph(contents) ==
    LET F[n \in 0..Len(contents)] ==
            IF n = 0 THEN EmptyMap ELSE MapSet(F[n - 1], contents[n].key, contents[n].deps)
    IN F[Len(contents)]

\* path.indexOf(key), from 1
IndexOf(path, key) == CHOOSE i \in 1..Len(path) : path[i] = key /\ \A j \in 1..(i - 1) : path[j] # key

RECURSIVE dfs(_, _, _)
\* dfs(key) on the traversal state st; the state it leaves.
dfs(graph, st, key) ==
    IF ~MapHas(graph, key) THEN st
    ELSE IF key \in st.recursionStack
    THEN [st EXCEPT !.cycles =
              Append(@, Append(SubSeq(st.path, IndexOf(st.path, key), Len(st.path)), key))]
    ELSE IF key \in st.visited THEN st
    ELSE LET s1 == [st EXCEPT !.visited = @ \cup {key},
                              !.recursionStack = @ \cup {key},
                              !.path = Append(@, key)]
             deps == graph[key]
             F[n \in 0..Len(deps)] ==
                 IF n = 0 THEN s1 ELSE dfs(graph, F[n - 1], deps[n])
             s2 == F[Len(deps)]
         IN [s2 EXCEPT !.recursionStack = @ \ {key},
                       !.path = SubSeq(@, 1, Len(@) - 1)]

\* A call of dfs that records the whole path.
dfsCallWholePath(c, key) ==
    LET graph == Graph(c.contents)
        st == c.st
    IN IF ~MapHas(graph, key) THEN c
       ELSE IF key \in st.recursionStack
       THEN [c EXCEPT !.st.cycles = Append(@, Append(st.path, key))]
       ELSE IF key \in st.visited THEN c
       ELSE [c EXCEPT !.st.visited = @ \cup {key},
                      !.st.recursionStack = @ \cup {key},
                      !.st.path = Append(@, key),
                      !.frames = Append(@, [key |-> key, i |-> 1])]

\* A call of dfs that does not look at visited.
dfsCallNoPrune(c, key) ==
    LET graph == Graph(c.contents)
        st == c.st
    IN IF ~MapHas(graph, key) THEN c
       ELSE IF key \in st.recursionStack
       THEN [c EXCEPT !.st.cycles =
                 Append(@, Append(SubSeq(st.path, IndexOf(st.path, key), Len(st.path)), key))]
       ELSE [c EXCEPT !.st.visited = @ \cup {key},
                      !.st.recursionStack = @ \cup {key},
                      !.st.path = Append(@, key),
                      !.frames = Append(@, [key |-> key, i |-> 1])]

\* The call dfs(key) up to its loop over the dependencies (lines 185-199):
\* it returns at once for a key that is not declared, is on the path (the
\* cycle is recorded) or was visited; else it marks the key and starts its
\* loop.
dfsCall(c, key) ==
    LET graph == Graph(c.contents)
        st == c.st
    IN IF ~MapHas(graph, key) THEN c
       ELSE IF key \in st.recursionStack
       THEN [c EXCEPT !.st.cycles =
                 Append(@, Append(SubSeq(st.path, IndexOf(st.path, key), Len(st.path)), key))]
       ELSE IF key \in st.visited THEN c
       ELSE [c EXCEPT !.st.visited = @ \cup {key},
                      !.st.recursionStack = @ \cup {key},
                      !.st.path = Append(@, key),
                      !.frames = Append(@, [key |-> key, i |-> 1])]

\* A traversal that starts from the first declaration only.
TraverseFirstOnly(contents) ==
    IF contents = << >> THEN DfsStart
    ELSE dfs(Graph(contents), DfsStart, contents[1].key)

\* for (const content of contents) { if (visited.has(content.key)) continue;
\* dfs(content.key); }
Traverse(contents) ==
    LET graph == Graph(contents)
        F[n \in 0..Len(contents)] ==
            IF n = 0 THEN DfsStart
            ELSE LET st == F[n - 1]
                 IN IF contents[n].key \in st.visited THEN st
                    ELSE dfs(graph, st, contents[n].key)
    IN F[Len(contents)]

\* ------------------------------------------------------------------ actions

TopCalls == {i \in Ids : proms[i].top}

\* The call the application has just made is the first promise added.
Issue(S) ==
    [S EXCEPT !.pr[Len(proms) + 1].quiet = \A i \in TopCalls : Settled(i)]
Providers == DOMAIN config

\* The application calls provider.get(buildId) on one of the Providers ps.
CallGetOf(ps, ids, max) ==
    \E p \in ps, b \in ids :
        /\ Cardinality(TopCalls) < max
        /\ Install(Issue(GetEnter(State, p, b, TRUE)))

CallGet(ids, max) == CallGetOf(Providers, ids, max)

CallDispose(ids, max) ==
    \E p \in Providers, b \in ids :
        /\ Cardinality(TopCalls) < max
        /\ Install(Issue(DisposeEnter(State, p, b, TRUE)))

CallDestroy(ids, max) ==
    \E p \in Providers, b \in ids :
        /\ Cardinality(TopCalls) < max
        /\ Install(Issue(DestroyEnter(State, p, b, TRUE)))

CallUse(ids, max) ==
    \E p \in Providers, b \in ids :
        /\ Cardinality(TopCalls) < max
        /\ Install(Issue(UseEnter(State, p, b, TRUE)))

\* get resumes after `await destroyingPromise` (line 620).
GetAfterDestroy ==
    \E g \in Ids :
        /\ proms[g].pc = "get_wd"
        /\ Settled(proms[g].w)
        /\ IF proms[proms[g].w].st = "fail"
           THEN Install(Reject(State, g, proms[proms[g].w].err))
           ELSE Install(GetBody(State, g))

\* get resumes after `await instance` (line 634) and returns to the
\* application; a get called by use returns in the step that resumes use.
GetReturn ==
    \E g \in Ids :
        /\ proms[g].top
        /\ proms[g].pc = "get_wi"
        /\ Settled(proms[g].w)
        /\ Install(SettleAs(State, g, proms[g].w))

\* config.build settles; on a rejection the catch of line 624 runs.
FactorySettle ==
    \E b \in Ids, ok \in BOOLEAN :
        /\ proms[b].pc = "b_run"
        /\ IF ok
           THEN Install(Fulfil(State, b, b))
           ELSE Install(Reject([State EXCEPT !.inst[proms[b].p] = MapDelete(@, proms[b].bid)],
                               b, Err("build", b)))

\* The async function of destroy resumes after `await instance` (line 686):
\* it calls config.destroy if there is one, else goes on to the deletes.
\* The gets that await the same build (line 634) began to wait before this
\* execution did, a get called once it is recorded waiting for it at line
\* 620, and a promise resumes its awaiters in the order they began to wait:
\* those gets have returned.
TeardownInstance ==
    \E t \in Ids :
        /\ proms[t].pc = "t_inst"
        /\ Settled(proms[t].w)
        /\ \A g \in Ids : ~(proms[g].top /\ proms[g].pc = "get_wi" /\ proms[g].w = proms[t].w)
        /\ LET i == proms[t].w
               p == proms[t].p
           IN IF proms[i].st = "fail"
              THEN Install(Reject(State, t, proms[i].err))
              ELSE IF config[p].hasDestroy
                   THEN Install([State EXCEPT !.pr[t].pc = "t_cb", !.pr[t].run = TRUE,
                                              !.pr[t].val = proms[i].val])
                   ELSE Install(AfterCallback(State, t))

\* config.destroy settles (line 687); the deletes follow only if it fulfils.
DestroyCallbackSettle ==
    \E t \in Ids, ok \in BOOLEAN :
        /\ proms[t].pc = "t_cb"
        /\ IF ok
           THEN Install(AfterCallback(State, t))
           ELSE Install(Reject(State, t, Err("destroy", t)))

\* dispose resumes after `await this.destroy(bId)` (line 648).
DisposeReturn ==
    \E d \in Ids :
        /\ proms[d].top
        /\ proms[d].pc = "dispose_w"
        /\ Settled(proms[d].w)
        /\ Install(SettleAs(State, d, proms[d].w))

\* destroy resumes after `await promise` (line 707).
DestroyReturn ==
    \E x \in Ids :
        /\ proms[x].pc = "destroy_w"
        /\ Settled(proms[x].w)
        /\ Install(SettleAs(State, x, proms[x].w))

\* use resumes after `await this.get(bId)` (line 713) and calls fn.
UseGot ==
    \E u \in Ids :
        /\ proms[u].pc = "use_get"
        /\ Returns(proms[u].w)
        /\ LET g == proms[u].w
               S1 == Return(State, g)
           IN IF S1.pr[g].st = "fail"
              THEN Install(Reject(S1, u, S1.pr[g].err))
              ELSE Install([S1 EXCEPT !.pr[u].pc = "use_fn", !.pr[u].run = TRUE,
                                      !.pr[u].val = S1.pr[g].val])

\* A use that disposes only when fn fulfilled.
UseFnSettleNoFinally ==
    \E u \in Ids, ok \in BOOLEAN :
        /\ proms[u].pc = "use_fn"
        /\ LET S1 == [State EXCEPT !.pr[u].fnres = IF ok THEN "ok" ELSE "fail"]
               S2 == DisposeEnter(S1, proms[u].p, proms[u].bid, FALSE)
           IN IF ok
              THEN Install([S2 EXCEPT !.pr[u].pc = "use_disp", !.pr[u].w = Last(S1) + 1,
                                      !.pr[u].c2 = Last(S1) + 1])
              ELSE Install(Reject(S1, u, Err("fn", u)))

\* fn settles (line 716); the finally block calls dispose (line 718).
UseFnSettle ==
    \E u \in Ids, ok \in BOOLEAN :
        /\ proms[u].pc = "use_fn"
        /\ LET S1 == [State EXCEPT !.pr[u].fnres = IF ok THEN "ok" ELSE "fail"]
               S2 == DisposeEnter(S1, proms[u].p, proms[u].bid, FALSE)
           IN Install([S2 EXCEPT !.pr[u].pc = "use_disp", !.pr[u].w = Last(S1) + 1,
                                 !.pr[u].c2 = Last(S1) + 1])

\* use resumes after `await this.dispose(bId)`: a rejection of dispose
\* replaces the outcome of the try block.
UseReturn ==
    \E u \in Ids :
        /\ proms[u].pc = "use_disp"
        /\ Returns(proms[u].w)
        /\ LET d == proms[u].w
               S1 == Return(State, d)
           IN IF S1.pr[d].st = "fail"
              THEN Install(Reject(S1, u, S1.pr[d].err))
              ELSE IF proms[u].fnres = "fail"
                   THEN Install(Reject(S1, u, Err("fn", u)))
                   ELSE Install(Fulfil(S1, u, proms[u].val))

\* A build that asks its dependencies for the default scope.
BuildProvidersNoScope ==
    \E b \in Ids :
        /\ proms[b].pc = "b_prov"
        /\ proms[b].hook.err = NoErr
        /\ LET R == CallEach("get", State, proms[b].hook.providers, Undef)
           IN Install([R.S EXCEPT !.pr[b].pc = "b_deps", !.pr[b].ch = R.ids])

\* build resumes after `await getProviders` (line 657) and calls get(bId) on
\* every dependency (line 662); if getProviders rejected, so does build, and
\* the catch of line 624 runs.
BuildProviders ==
    \E b \in Ids :
        /\ proms[b].pc = "b_prov"
        /\ IF proms[b].hook.err = NoErr
           THEN LET R == CallEach("get", State, proms[b].hook.providers, proms[b].bid)
                IN Install([R.S EXCEPT !.pr[b].pc = "b_deps", !.pr[b].ch = R.ids])
           ELSE Install(Reject([State EXCEPT !.inst[proms[b].p] = MapDelete(@, proms[b].bid)],
                               b, proms[b].hook.err))

\* build resumes after `await Promise.all` (line 660): with every instance
\* (n = 0) it calls config.build; on the first rejection, of the n-th get,
\* it rejects and the catch of line 624 runs.
BuildDeps ==
    \E b \in Ids : \E n \in 0..Len(proms[b].ch) :
        /\ proms[b].pc = "b_deps"
        /\ LET ch == proms[b].ch
           IN IF n = 0
              THEN /\ \A i \in 1..Len(ch) : Returns(ch[i]) /\ Outcome(ch[i]) = "ok"
                   /\ LET S1 == ReturnAll(State, ch)
                      IN Install([S1 EXCEPT !.pr[b].pc = "b_run", !.pr[b].run = TRUE,
                                            !.pr[b].dv = [i \in 1..Len(ch) |-> S1.pr[ch[i]].val]])
              ELSE /\ Returns(ch[n]) /\ Outcome(ch[n]) = "fail"
                   /\ LET S1 == Return(State, ch[n])
                      IN Install(Reject([S1 EXCEPT !.inst[proms[b].p] = MapDelete(@, proms[b].bid)],
                                        b, S1.pr[ch[n]].err))

\* A destroy that destroys its dependencies instead of disposing of them.
TeardownProvidersDestroy ==
    \E t \in Ids :
        /\ proms[t].pc = "t_prov"
        /\ proms[t].hook.err = NoErr
        /\ LET deps == proms[t].hook.providers
               F[n \in 0..Len(deps)] ==
                   IF n = 0 THEN [S |-> State, ids |-> << >>]
                   ELSE [S |-> DestroyEnter(F[n - 1].S, deps[n].key, proms[t].bid, FALSE),
                         ids |-> Append(F[n - 1].ids, Last(F[n - 1].S) + 1)]
           IN Install([F[Len(deps)].S EXCEPT !.pr[t].pc = "t_deps",
                                             !.pr[t].ds = F[Len(deps)].ids])

\* destroy resumes after `await getProviders` (line 690) and calls
\* dispose(bId) on every dependency (line 694); if getProviders rejected, so
\* does the async function, before its deletes.
TeardownProviders ==
    \E t \in Ids :
        /\ proms[t].pc = "t_prov"
        /\ IF proms[t].hook.err = NoErr
           THEN LET R == CallEach("dispose", State, proms[t].hook.providers, proms[t].bid)
                IN Install([R.S EXCEPT !.pr[t].pc = "t_deps", !.pr[t].ds = R.ids])
           ELSE Install(Reject(State, t, proms[t].hook.err))

\* A destroy that does not wait for the disposals before its deletes.
TeardownDepsNoWait ==
    \E t \in Ids :
        /\ proms[t].pc = "t_deps"
        /\ Install(Fulfil(Cleanup(State, proms[t].p, proms[t].bid), t, proms[t].val))

\* destroy resumes after `await Promise.all` (line 692): the deletes follow
\* when every dispose fulfilled (n = 0), not when the n-th rejected.
TeardownDeps ==
    \E t \in Ids : \E n \in 0..Len(proms[t].ds) :
        /\ proms[t].pc = "t_deps"
        /\ LET ds == proms[t].ds
           IN IF n = 0
              THEN /\ \A i \in 1..Len(ds) : Returns(ds[i]) /\ Outcome(ds[i]) = "ok"
                   /\ LET S1 == ReturnAll(State, ds)
                      IN Install(Fulfil(Cleanup(S1, proms[t].p, proms[t].bid), t, proms[t].val))
              ELSE /\ Returns(ds[n]) /\ Outcome(ds[n]) = "fail"
                   /\ LET S1 == Return(State, ds[n])
                      IN Install(Reject(S1, t, S1.pr[ds[n]].err))

\* The application calls useProviders(keys, fn, buildId), which awaits
\* getProviders (line 753).
CallUseProviders(keymaps, ids, max) ==
    \E keys \in keymaps, b \in ids :
        /\ Cardinality(TopCalls) < max
        /\ Install(Issue(New(State, [Promise("useall", App, b, b, TRUE) EXCEPT
                                        !.pc = "up_prov", !.keys = keys,
                                        !.hook = getProviders(resolver, keys)])))

\* useProviders resumes after `await getProviders` and calls get(buildId)
\* on every Provider (line 758).
UseProvidersResolved ==
    \E u \in Ids :
        /\ proms[u].pc = "up_prov"
        /\ IF proms[u].hook.err = NoErr
           THEN LET R == CallEach("get", State, proms[u].hook.providers, proms[u].arg)
                IN Install([R.S EXCEPT !.pr[u].pc = "up_gets", !.pr[u].ch = R.ids])
           ELSE Install(Reject(State, u, proms[u].hook.err))

\* useProviders resumes after `await Promise.all` (line 756): with every
\* instance (n = 0) it calls fn, on the first rejection it rejects.
UseProvidersGot ==
    \E u \in Ids : \E n \in 0..Len(proms[u].ch) :
        /\ proms[u].pc = "up_gets"
        /\ LET ch == proms[u].ch
           IN IF n = 0
              THEN /\ \A i \in 1..Len(ch) : Returns(ch[i]) /\ Outcome(ch[i]) = "ok"
                   /\ LET S1 == ReturnAll(State, ch)
                      IN Install([S1 EXCEPT !.pr[u].pc = "up_fn", !.pr[u].run = TRUE,
                                            !.pr[u].dv = [i \in 1..Len(ch) |-> S1.pr[ch[i]].val]])
              ELSE /\ Returns(ch[n]) /\ Outcome(ch[n]) = "fail"
                   /\ LET S1 == Return(State, ch[n])
                      IN Install(Reject(S1, u, S1.pr[ch[n]].err))

\* fn settles (line 765); the finally block calls dispose(buildId) on every
\* Provider (line 771).
UseProvidersFnSettle ==
    \E u \in Ids, ok \in BOOLEAN :
        /\ proms[u].pc = "up_fn"
        /\ LET S1 == [State EXCEPT !.pr[u].fnres = IF ok THEN "ok" ELSE "fail"]
               R == CallEach("dispose", S1, proms[u].keys, proms[u].arg)
           IN Install([R.S EXCEPT !.pr[u].pc = "up_disp", !.pr[u].ds = R.ids])

\* useProviders resumes after the `await Promise.all` of the finally block:
\* a rejection, of the n-th dispose, replaces the outcome of the try block.
UseProvidersReturn ==
    \E u \in Ids : \E n \in 0..Len(proms[u].ds) :
        /\ proms[u].pc = "up_disp"
        /\ LET ds == proms[u].ds
           IN IF n = 0
              THEN /\ \A i \in 1..Len(ds) : Returns(ds[i]) /\ Outcome(ds[i]) = "ok"
                   /\ LET S1 == ReturnAll(State, ds)
                      IN IF proms[u].fnres = "fail"
                         THEN Install(Reject(S1, u, Err("fn", u)))
                         ELSE Install(Fulfil(S1, u, u))
              ELSE /\ Returns(ds[n]) /\ Outcome(ds[n]) = "fail"
                   /\ LET S1 == Return(State, ds[n])
                      IN Install(Reject(S1, u, S1.pr[ds[n]].err))

\* generate writes the empty registry to the output path (line 67).
WritePlaceholder ==
    /\ cli.pc = "start"
    /\ cli' = [cli EXCEPT !.pc = "scan", !.out = Append(@, Placeholder)]
    /\ UNCHANGED <<config, instances, destroying, counts, proms, resolver>>

\* The scan of the source files (lines 69-172) has found the provider
\* declarations: different keys, in any order, each with its dependencies.
Discover ==
    /\ cli.pc = "scan"
    /\ \E ks \in KeyOrders : \E ds \in [1..Len(ks) -> DepLists] :
          cli' = [cli EXCEPT !.pc = "check",
                             !.contents = [i \in 1..Len(ks) |-> [key |-> ks[i], deps |-> ds[i]]]]
    /\ UNCHANGED <<config, instances, destroying, counts, proms, resolver>>

\* A generate that goes on whatever cycles it recorded.
AnalyseNoAbort ==
    /\ cli.pc = "check"
    /\ cli' = [cli EXCEPT !.cycles = Traverse(cli.contents).cycles, !.pc = "emit"]
    /\ UNCHANGED <<config, instances, destroying, counts, proms, resolver>>

\* generate has the declarations: it builds the graph, traverses it and
\* throws if a cycle was recorded (lines 174-213).
Analyse ==
    /\ cli.pc = "check"
    /\ LET cycles == Traverse(cli.contents).cycles
       IN cli' = [cli EXCEPT !.cycles = cycles,
                             !.pc = IF Len(cycles) > 0 THEN "failed" ELSE "emit"]
    /\ UNCHANGED <<config, instances, destroying, counts, proms, resolver>>

\* generate writes the registry of the declarations (lines 215-234).
Emit ==
    /\ cli.pc = "emit"
    /\ cli' = [cli EXCEPT !.pc = "done", !.out = Append(@, Registry(cli.contents))]
    /\ UNCHANGED <<config, instances, destroying, counts, proms, resolver>>

\* An error that carries the first recorded cycle only.
ExitFirstCycle ==
    /\ cli.pc \in {"failed", "done"}
    /\ cli.exit = << >>
    /\ cli' = [cli EXCEPT !.stderr = IF cli.pc = "failed"
                                     THEN Append(@, SubSeq(cli.cycles, 1, 1)) ELSE @,
                          !.exit = <<ExitStatus(cli.pc = "failed", TRUE)>>]
    /\ UNCHANGED <<config, instances, destroying, counts, proms, resolver>>

\* main().catch(console.error): generate has settled, so has main (line
\* 291); a rejection is handled by console.error, which prints the error,
\* and the process ends.
Exit ==
    /\ cli.pc \in {"failed", "done"}
    /\ cli.exit = << >>
    /\ cli' = [cli EXCEPT !.stderr = IF cli.pc = "failed" THEN Append(@, cli.cycles) ELSE @,
                          !.exit = <<ExitStatus(cli.pc = "failed", TRUE)>>]
    /\ UNCHANGED <<config, instances, destroying, counts, proms, resolver>>

\* The declarations the scan finds, the keys named in the order it finds
\* them.
DeclOrder == <<"A", "B", "C">>
\* The dependencies of one declaration: different keys, or one key under
\* two names.
DfsDepLists ==
    {d \in DepLists : \A i, j \in 1..Len(d) : d[i] = d[j] => i = j}
        \cup {<<k, k>> : k \in DeclKeys}

\* The scan (lines 69-172) has found the declarations and the traversal
\* starts with empty sets (lines 174-182).
DiscoverInOrder ==
    /\ cli.pc = "scan"
    /\ \E n \in 0..Len(DeclOrder) : \E ds \in [1..n -> DfsDepLists] :
          cli' = [cli EXCEPT !.pc = "dfs",
                             !.contents = [i \in 1..n |-> [key |-> DeclOrder[i], deps |-> ds[i]]],
                             !.st = DfsStart, !.frames = << >>, !.root = 1]
    /\ UNCHANGED <<config, instances, destroying, counts, proms, resolver>>

\* One turn of the loop over the declarations (lines 206-209), made when no
\* call of dfs is in progress.
DfsRoot ==
    /\ cli.pc = "dfs"
    /\ cli.frames = << >>
    /\ cli.root <= Len(cli.contents)
    /\ LET key == cli.contents[cli.root].key
           c == [cli EXCEPT !.root = @ + 1]
       IN cli' = IF key \in cli.st.visited THEN c ELSE dfsCall(c, key)
    /\ UNCHANGED <<config, instances, destroying, counts, proms, resolver>>

\* One turn of the loop of the innermost call over its dependencies (line
\* 200): dfs(dep).
DfsDep ==
    /\ cli.pc = "dfs"
    /\ cli.frames # << >>
    /\ LET n == Len(cli.frames)
           f == cli.frames[n]
           deps == Graph(cli.contents)[f.key]
       IN /\ f.i <= Len(deps)
          /\ cli' = dfsCall([cli EXCEPT !.frames[n].i = @ + 1], deps[f.i])
    /\ UNCHANGED <<config, instances, destroying, counts, proms, resolver>>

\* A leave that forgets to pop the path.
DfsLeaveNoPop ==
    /\ cli.pc = "dfs"
    /\ cli.frames # << >>
    /\ LET n == Len(cli.frames)
           f == cli.frames[n]
       IN /\ f.i > Len(Graph(cli.contents)[f.key])
          /\ cli' = [cli EXCEPT !.st.recursionStack = @ \ {f.key},
                                !.frames = SubSeq(@, 1, n - 1)]
    /\ UNCHANGED <<config, instances, destroying, counts, proms, resolver>>

\* The loop of the innermost call is over: the key leaves the recursion
\* set and the path, and the call returns (lines 202-203).
DfsLeave ==
    /\ cli.pc = "dfs"
    /\ cli.frames # << >>
    /\ LET n == Len(cli.frames)
           f == cli.frames[n]
       IN /\ f.i > Len(Graph(cli.contents)[f.key])
          /\ cli' = [cli EXCEPT !.st.recursionStack = @ \ {f.key},
                                !.st.path = SubSeq(@, 1, Len(@) - 1),
                                !.frames = SubSeq(@, 1, n - 1)]
    /\ UNCHANGED <<config, instances, destroying, counts, proms, resolver>>

\* The loop over the declarations is over: generate throws if a cycle was
\* recorded (lines 211-213).
DfsEnd ==
    /\ cli.pc = "dfs"
    /\ cli.frames = << >>
    /\ cli.root > Len(cli.contents)
    /\ cli' = [cli EXCEPT !.cycles = cli.st.cycles,
                          !.pc = IF Len(cli.st.cycles) > 0 THEN "failed" ELSE "emit"]
    /\ UNCHANGED <<config, instances, destroying, counts, proms, resolver>>

\* The application imports the generated registry, which assigns its
\* Provider.get: one loader per Provider of the source tree, or of a part of
\* it.
InstallResolver ==
    /\ ~resolver.installed
    /\ \E K \in SUBSET DOMAIN config : resolver' = Generated([k \in K |-> k])
    /\ UNCHANGED <<config, instances, destroying, counts, proms, cli>>

\* The application calls getProviders(keys) (line 735), which awaits
\* Provider.get(keys).
CallGetProviders(requests, max) ==
    \E keys \in requests :
        /\ Cardinality(TopCalls) < max
        /\ Install(Issue(New(State, [Promise("resolve", App, Undef, Undef, TRUE) EXCEPT
                                        !.pc = "r_wait", !.keys = keys,
                                        !.hook = getProviders(resolver, keys)])))

\* getProviders returns what Provider.get settled to.
ResolveSettle ==
    \E r \in Ids :
        /\ proms[r].pc = "r_wait"
        /\ IF proms[r].hook.err = NoErr
           THEN Install(Fulfil(State, r, 0))
           ELSE Install(Reject(State, r, proms[r].hook.err))

\* The application calls startProviders(), which awaits Provider.get of
\* the eager keys (cli.ts line 35).
CallStartProviders(max) ==
    /\ Cardinality(TopCalls) < max
    /\ Install(Issue(New(State, [Promise("start", App, Undef, Undef, TRUE) EXCEPT
                                    !.pc = "sp_prov", !.keys = providersEager(resolver),
                                    !.hook = GeneratedGet(resolver.loaders,
                                                          providersEager(resolver))])))

\* A startProviders that builds every registered Provider.
StartProvidersResolvedAll ==
    \E u \in Ids :
        /\ proms[u].pc = "sp_prov"
        /\ LET all == [i \in 1..Len(StartOrder) |-> Dep(StartOrder[i], StartOrder[i])]
               R == CallEach("get", State, all, Undef)
           IN Install([R.S EXCEPT !.pr[u].pc = "sp_gets", !.pr[u].ch = R.ids])

\* startProviders resumes after `await Provider.get` and calls get() on
\* every Provider it was given (cli.ts line 42).
StartProvidersResolved ==
    \E u \in Ids :
        /\ proms[u].pc = "sp_prov"
        /\ IF proms[u].hook.err = NoErr
           THEN LET R == CallEach("get", State, proms[u].hook.providers, Undef)
                IN Install([R.S EXCEPT !.pr[u].pc = "sp_gets", !.pr[u].ch = R.ids])
           ELSE Install(Reject(State, u, proms[u].hook.err))

\* startProviders resumes after `await Promise.all` (cli.ts line 40): with
\* every instance (n = 0) it returns them under their keys, on the first
\* rejection it rejects.
StartProvidersGot ==
    \E u \in Ids : \E n \in 0..Len(proms[u].ch) :
        /\ proms[u].pc = "sp_gets"
        /\ LET ch == proms[u].ch
           IN IF n = 0
              THEN /\ \A i \in 1..Len(ch) : Returns(ch[i]) /\ Outcome(ch[i]) = "ok"
                   /\ LET S1 == ReturnAll(State, ch)
                      IN Install(Fulfil([S1 EXCEPT !.pr[u].dv =
                                             [i \in 1..Len(ch) |-> S1.pr[ch[i]].val]], u, 0))
              ELSE /\ Returns(ch[n]) /\ Outcome(ch[n]) = "fail"
                   /\ LET S1 == Return(State, ch[n])
                      IN Install(Reject(S1, u, S1.pr[ch[n]].err))

InitWith(configs) ==
    /\ config \in configs
    /\ instances = [p \in DOMAIN config |-> EmptyMap]
    /\ destroying = [p \in DOMAIN config |-> EmptyMap]
    /\ counts = [p \in DOMAIN config |-> EmptyMap]
    /\ proms = << >>
    /\ cli = CliIdle
    /\ resolver = Generated([k \in DOMAIN config |-> k])

Init == InitWith(CoreConfigs)

\* What the calls the application has made go on to do.
Resume ==
    \/ GetAfterDestroy
    \/ GetReturn
    \/ FactorySettle
    \/ TeardownInstance
    \/ DestroyCallbackSettle
    \/ DisposeReturn
    \/ DestroyReturn

ResumeUse ==
    \/ UseGot
    \/ UseFnSettle
    \/ UseReturn

ResumeDeps ==
    \/ BuildProviders
    \/ BuildDeps
    \/ TeardownProviders
    \/ TeardownDeps

\* get, dispose and destroy of one Provider on one buildId.
Next ==
    \/ CallGet(CoreIds, MaxCalls)
    \/ CallDispose(CoreIds, MaxCalls)
    \/ CallDestroy(CoreIds, MaxCalls)
    \/ Resume

Spec == Init /\ [][Next]_vars

\* The same with use.
NextUse ==
    \/ CallGet(CoreIds, MaxUseCalls)
    \/ CallDispose(CoreIds, MaxUseCalls)
    \/ CallDestroy(CoreIds, MaxUseCalls)
    \/ CallUse(CoreIds, MaxUseCalls)
    \/ Resume
    \/ ResumeUse

SpecUse == Init /\ [][NextUse]_vars

\* Every call the application has made has returned.
AllReturned == \A i \in TopCalls : Settled(i)

\* An application that awaits each call before it makes the next.
NextSeq ==
    \/ AllReturned /\ CallGet(CoreIds, MaxSeqCalls)
    \/ AllReturned /\ CallDispose(CoreIds, MaxSeqCalls)
    \/ AllReturned /\ CallDestroy(CoreIds, MaxSeqCalls)
    \/ Resume

SpecSeq == Init /\ [][NextSeq]_vars

\* The same application with a Provider that may have disableDisposeDestroy set.
SpecKeep == InitWith(KeepConfigs) /\ [][NextSeq]_vars

\* get, dispose and destroy at any time on a Provider that may have
\* disableDisposeDestroy set.
NextCount ==
    \/ CallGet(CoreIds, MaxCountCalls)
    \/ CallDispose(CoreIds, MaxCountCalls)
    \/ CallDestroy(CoreIds, MaxCountCalls)
    \/ Resume

SpecCount == InitWith(KeepConfigs) /\ [][NextCount]_vars

\* get, dispose and destroy at any time on db and on svc, which declares db
\* under one or two names.
NextOrder ==
    \/ CallGet(CoreIds, MaxOrderCalls)
    \/ CallDispose(CoreIds, MaxOrderCalls)
    \/ CallDestroy(CoreIds, MaxOrderCalls)
    \/ Resume
    \/ ResumeDeps

SpecOrder == InitWith(TwinConfigs) /\ [][NextOrder]_vars

\* A Provider with or without singleton, called with any buildId or none,
\* one call after another.
NextScope ==
    \/ AllReturned /\ CallGet(BuildIds, MaxScopeCalls)
    \/ AllReturned /\ CallDispose(BuildIds, MaxScopeCalls)
    \/ AllReturned /\ CallDestroy(BuildIds, MaxScopeCalls)
    \/ AllReturned /\ CallUse(BuildIds, MaxScopeCalls)
    \/ Resume
    \/ ResumeUse

SpecScope == InitWith(ScopeConfigs) /\ [][NextScope]_vars

\* One Provider without singleton, called on two buildIds at any time.
NextIso ==
    \/ CallGet(IsoIds, MaxIsoCalls)
    \/ CallDispose(IsoIds, MaxIsoCalls)
    \/ CallDestroy(IsoIds, MaxIsoCalls)
    \/ Resume

SpecIso == InitWith({[svc |-> Cfg(FALSE, FALSE, TRUE)]}) /\ [][NextIso]_vars

\* A Provider and its dependency, called on two buildIds at any time.
NextDeps ==
    \/ CallGet(IsoIds, MaxDepCalls)
    \/ CallDispose(IsoIds, MaxDepCalls)
    \/ CallDestroy(IsoIds, MaxDepCalls)
    \/ Resume
    \/ ResumeDeps

SpecDeps == InitWith(PairConfigs) /\ [][NextDeps]_vars

\* Providers with dependencies, called on one buildId, one call after another.
NextDepsSeq ==
    \/ AllReturned /\ CallGet(CoreIds, MaxDepSeqCalls)
    \/ AllReturned /\ CallDispose(CoreIds, MaxDepSeqCalls)
    \/ AllReturned /\ CallDestroy(CoreIds, MaxDepSeqCalls)
    \/ Resume
    \/ ResumeDeps

SpecDepsSeq == InitWith(DepConfigs) /\ [][NextDepsSeq]_vars

\* An application that only calls get, on the Providers that share a
\* dependency, for two buildIds, at any time.
NextShare ==
    \/ CallGetOf({p \in Providers : HasDeps(config[p])}, IsoIds, MaxShareCalls)
    \/ GetReturn
    \/ FactorySettle
    \/ BuildProviders
    \/ BuildDeps

SpecShare == InitWith(DepConfigs) /\ [][NextShare]_vars

\* An application that calls useProviders on a Provider and its dependency.
NextUseAll ==
    \/ CallUseProviders(KeyMaps, UseAllIds, MaxUseAllCalls)
    \/ UseProvidersResolved
    \/ UseProvidersGot
    \/ UseProvidersFnSettle
    \/ UseProvidersReturn
    \/ GetAfterDestroy
    \/ FactorySettle
    \/ TeardownInstance
    \/ DestroyCallbackSettle
    \/ ResumeDeps

SpecUseAll == InitWith(PairConfigs) /\ [][NextUseAll]_vars

\* Gets on db and on svc, which depends on db, by an application that
\* imports the generated registry at some time, or never.
InitHook ==
    /\ config \in PairConfigs
    /\ instances = [p \in DOMAIN config |-> EmptyMap]
    /\ destroying = [p \in DOMAIN config |-> EmptyMap]
    /\ counts = [p \in DOMAIN config |-> EmptyMap]
    /\ proms = << >>
    /\ cli = CliIdle
    /\ resolver = NotInitialized

NextHook ==
    \/ CallGet(CoreIds, MaxHookCalls)
    \/ InstallResolver
    \/ GetReturn
    \/ FactorySettle
    \/ BuildProviders
    \/ BuildDeps

SpecHook == InitHook /\ [][NextHook]_vars

\* An application that has imported a registry generated with loaders for
\* some of db and svc, and calls getProviders.
InitResolve ==
    /\ config \in PairConfigs
    /\ instances = [p \in DOMAIN config |-> EmptyMap]
    /\ destroying = [p \in DOMAIN config |-> EmptyMap]
    /\ counts = [p \in DOMAIN config |-> EmptyMap]
    /\ proms = << >>
    /\ cli = CliIdle
    /\ resolver \in {Generated([k \in K |-> k]) : K \in SUBSET DOMAIN config}

NextResolve ==
    \/ AllReturned /\ CallGetProviders(Requests, MaxResolveCalls)
    \/ ResolveSettle

SpecResolve == InitResolve /\ [][NextResolve]_vars

\* An application that has imported the registry generated from api, db
\* and svc, any of them eager, and calls startProviders.
InitStart ==
    /\ config \in StartConfigs
    /\ instances = [p \in DOMAIN config |-> EmptyMap]
    /\ destroying = [p \in DOMAIN config |-> EmptyMap]
    /\ counts = [p \in DOMAIN config |-> EmptyMap]
    /\ proms = << >>
    /\ cli = CliIdle
    /\ \E E \in SUBSET DOMAIN config :
          resolver = GeneratedEager([k \in DOMAIN config |-> k],
                                    SelectSeq(StartOrder, LAMBDA k : k \in E))

NextStart ==
    \/ AllReturned /\ CallStartProviders(MaxStartCalls)
    \/ StartProvidersResolved
    \/ StartProvidersGot
    \/ FactorySettle
    \/ BuildProviders
    \/ BuildDeps

SpecStart == InitStart /\ [][NextStart]_vars

\* One run of the command generate over some source tree.
InitCli ==
    /\ config = EmptyMap
    /\ instances = EmptyMap
    /\ destroying = EmptyMap
    /\ counts = EmptyMap
    /\ proms = << >>
    /\ cli = [CliIdle EXCEPT !.pc = "start"]
    /\ resolver = NotInitialized

NextCli ==
    \/ WritePlaceholder
    \/ Discover
    \/ Analyse
    \/ Emit
    \/ Exit

SpecCli == InitCli /\ [][NextCli]_vars

\* One run of generate, its traversal made call by call; a step that can be
\* made is made.
NextDfs ==
    \/ WritePlaceholder
    \/ DiscoverInOrder
    \/ DfsRoot
    \/ DfsDep
    \/ DfsLeave
    \/ DfsEnd
    \/ Emit
    \/ Exit

SpecDfs == InitCli /\ [][NextDfs]_vars /\ WF_vars(NextDfs)

\* ------------------------------------------------------------- vocabulary

Kind(k) == {i \in Ids : proms[i].k = k}
Gets == Kind("get")
Builds == Kind("build")
Teardowns == Kind("teardown")
SameScope(i, j) == proms[i].p = proms[j].p /\ proms[i].bid = proms[j].bid

\* get has passed line 622: proms[g].w is the build it awaits or awaited.
Picked(g) == proms[g].k = "get" /\ proms[g].pc \in {"get_wi", "done"} /\ proms[g].w # proms[g].wd

\* The build was torn down by a destroy that began before promise j existed.
DestroyedBefore(b, j) == \E t \in Teardowns : proms[t].w = b /\ t < j

\* The application's calls, in the order it made them.
TopSeq == LET F[n \in 0..Len(proms)] ==
                  IF n = 0 THEN << >>
                  ELSE IF proms[n].top THEN Append(F[n - 1], n) ELSE F[n - 1]
          IN F[Len(proms)]
\* Every call was made after the calls before it had returned.
OneAfterAnother == \A i \in TopCalls : proms[i].quiet

\* ------------------------------------------------------------------ claims

\* C1: build deduplication.  Two get(S) calls of one Provider await
\* different builds only if the earlier build failed or was torn down by a
\* destroy begun before the later build; so get(S) calls with no failure and
\* no destroy between them share one factory invocation, and every one that
\* has returned from a fulfilled build returned that build's instance.
C1_BuildDeduplication ==
    \A g1 \in Gets : \A g2 \in Gets :
        (SameScope(g1, g2) /\ Picked(g1) /\ Picked(g2)) =>
            LET b1 == proms[g1].w
                b2 == proms[g2].w
            IN /\ proms[b1].k = "build" /\ proms[b1].run /\ SameScope(b1, g1)
               /\ b1 < b2 => (proms[b1].st = "fail" \/ DestroyedBefore(b1, b2))
               /\ (b1 = b2 /\ proms[b1].st = "ok" /\ Settled(g1) /\ Settled(g2)) =>
                      /\ proms[g1].st = "ok" /\ proms[g2].st = "ok"
                      /\ proms[g1].val = b1 /\ proms[g2].val = b1

\* Three get(S) calls made while the first was pending resolved to the
\* instance of the one build there is.
C1_Witness ==
    \E g1 \in Gets : \E g2 \in Gets : \E g3 \in Gets :
        /\ g1 < g2 /\ g2 < g3
        /\ ~proms[g2].quiet /\ ~proms[g3].quiet
        /\ \A g \in {g1, g2, g3} : proms[g].st = "ok" /\ proms[g].val = proms[g1].w
        /\ Cardinality(Builds) = 1

\* The destroy callbacks invoked so far, each named by its destroy promise.
Callbacks == {t \in Teardowns : proms[t].run}

\* The application's calls are n >= 1 gets, none of which failed, then
\* disposes, all of one Provider and scope, made one after another.
GetsThenDisposes(n) ==
    /\ OneAfterAnother
    /\ n \in 1..Len(TopSeq)
    /\ \A i \in 1..Len(TopSeq) :
          /\ SameScope(TopSeq[i], TopSeq[1])
          /\ proms[TopSeq[i]].k = IF i <= n THEN "get" ELSE "dispose"
          /\ i <= n => proms[TopSeq[i]].st # "fail"

\* C2: reference counting on a fresh Provider that has a destroy callback and
\* disableDisposeDestroy unset.  After N successful get(S) and then M
\* dispose(S), made one after another: no destroy callback has been invoked
\* while M < N; from the N-th dispose on exactly one has, by the destroy the
\* N-th dispose started, and it was invoked before that dispose returned; no
\* later dispose invokes another.  No stored count is ever negative.
C2_RefCounting ==
    /\ \A p \in Providers : \A s \in DOMAIN counts[p] : counts[p][s] >= 0
    /\ \A n \in 1..Len(TopSeq) :
          (GetsThenDisposes(n) /\ config[proms[TopSeq[1]].p].hasDestroy
                /\ ~config[proms[TopSeq[1]].p].disableDisposeDestroy) =>
             LET m == Len(TopSeq) - n
                 dN == TopSeq[n + n]
             IN /\ m < n => Callbacks = {}
                /\ m >= n =>
                      /\ proms[dN].w = dN + 1
                      /\ Callbacks \subseteq {proms[dN].w}
                      /\ (Settled(dN) \/ m > n) => Callbacks = {proms[dN].w}

\* get, get, dispose, dispose, dispose, one after another: the callback ran
\* once, in the second dispose.
C2_Witness ==
    /\ GetsThenDisposes(2)
    /\ Len(TopSeq) = 5
    /\ \A i \in 1..5 : proms[TopSeq[i]].st = "ok"
    /\ Callbacks = {proms[TopSeq[4]].w}
    /\ proms[TopSeq[3]].w = 0

\* C3: a get(S) called while a destroy of S is in flight starts no build and
\* does not return while that destroy is pending; when it goes on to line 622
\* the destroy has completed, and the build it awaits (and whose instance it
\* returns) began after that destroy did and is not the one torn down.  No
\* build of S begins while a destroy of S is pending, unless the build being
\* destroyed has itself just failed.
C3_GetWaitsForDestroy ==
    /\ \A g \in Gets :
          proms[g].wdp =>
             LET t == proms[g].wd
             IN /\ proms[t].k = "teardown" /\ SameScope(t, g) /\ t < g
                /\ proms[t].st = "pend" =>
                      proms[g].pc = "get_wd" /\ proms[g].st = "pend" /\ proms[g].w = t
                /\ Picked(g) =>
                      /\ proms[t].st = "ok"
                      /\ proms[g].w > t
                      /\ proms[g].w # proms[t].w
                      /\ proms[g].st = "ok" =>
                            proms[g].val = proms[g].w /\ proms[g].val # proms[proms[t].w].val
    /\ \A t \in Teardowns : \A b \in Builds :
          (proms[t].st = "pend" /\ SameScope(t, b) /\ b > t) => proms[proms[t].w].st = "fail"

\* A get called during a destroy returned the instance of a build it started
\* itself once the destroy had completed.
C3_Witness ==
    \E g \in Gets :
        /\ proms[g].wdp
        /\ proms[g].st = "ok"
        /\ proms[g].w = g + 1
        /\ proms[proms[g].wd].run
        /\ proms[proms[proms[g].wd].w].st = "ok"

\* C4: concurrent destroy(S) calls collapse into one execution.  A destroy
\* of S begins only when every earlier one of S has completed, so calls made
\* while one is in flight await that one; each instance has its destroy
\* callback invoked at most once, and once when the destroy of a built
\* instance has fulfilled; every destroy call that has returned returned the
\* outcome of the execution it awaited.
C4_DestroyCollapses ==
    /\ \A t1 \in Teardowns : \A t2 \in Teardowns :
          (SameScope(t1, t2) /\ t1 < t2) =>
              /\ proms[t1].st = "ok"
              /\ proms[t1].w # proms[t2].w \/ proms[t1].w = 0
    /\ \A t \in Teardowns :
          /\ proms[t].run => (proms[t].w # 0 /\ proms[proms[t].w].st = "ok"
                                /\ proms[t].val = proms[proms[t].w].val)
          /\ (proms[t].st = "ok" /\ proms[t].w # 0 /\ config[proms[t].p].hasDestroy)
                 => proms[t].run
    /\ \A x \in Kind("destroy") :
          LET t == proms[x].w
          IN /\ proms[t].k = "teardown" /\ SameScope(t, x)
             /\ Settled(x) =>
                   /\ proms[x].st = proms[t].st
                   /\ proms[x].err = proms[t].err

\* Two destroy calls, the second made while the first was in flight, have
\* returned; the callback ran once, on the built instance.
C4_Witness ==
    \E x1 \in Kind("destroy") : \E x2 \in Kind("destroy") :
        /\ x1 < x2
        /\ proms[x1].had # 0
        /\ ~proms[x2].quiet
        /\ proms[x2].w = proms[x1].w
        /\ \A x \in {x1, x2} : proms[x].st = "ok"
        /\ Callbacks = {proms[x1].w}

\* The build of g's scope begun last before g was called, if it failed.
LastBuildFailed(g) ==
    \E b \in Builds :
        /\ b < g /\ SameScope(b, g) /\ proms[b].st = "fail"
        /\ \A c \in Builds : (c < g /\ SameScope(c, g)) => c <= b

\* C5: a failed build is never cached.  instances never holds a rejected
\* build; every get that awaited a build that failed is rejected with that
\* build's failure; and a get(S) called, with no other call pending, after the
\* last build of S failed invokes the factory again and returns what that
\* new build settles to.
C5_FailedBuildNotCached ==
    /\ \A p \in Providers : \A s \in DOMAIN instances[p] :
          proms[instances[p][s]].st # "fail"
    /\ \A g \in Gets :
          (Picked(g) /\ Settled(g) /\ proms[proms[g].w].st = "fail") =>
              proms[g].st = "fail" /\ proms[g].err = proms[proms[g].w].err
    /\ \A g \in Gets :
          (proms[g].top /\ proms[g].quiet /\ Settled(g) /\ LastBuildFailed(g)) =>
              /\ Picked(g)
              /\ proms[g].w > g /\ proms[proms[g].w].run
              /\ proms[g].st = proms[proms[g].w].st

\* C6: when the destroy callback fails during destroy(S), every caller that
\* awaited that destroy is rejected with the callback's failure, and S is no
\* longer recorded: destroying does not hold the failed destroy, instances
\* does not hold the instance it was destroying and counts has no entry left
\* from it, so that a later get(S) is not rejected by it.
C6_DestroyFailureCleansUp ==
    \A t \in Teardowns :
        (proms[t].st = "fail" /\ proms[t].err = Err("destroy", t)) =>
            LET p == proms[t].p
                s == proms[t].bid
            IN /\ \A x \in Kind("destroy") \cup Kind("dispose") :
                     (proms[x].w = t /\ Settled(x)) =>
                         proms[x].st = "fail" /\ proms[x].err = proms[t].err
               /\ ~(MapHas(destroying[p], s) /\ destroying[p][s] = t)
               /\ ~(MapHas(instances[p], s) /\ instances[p][s] = proms[t].w)
               /\ \A g \in Gets :
                     (SameScope(g, t) /\ g > t /\ Settled(g)) => proms[g].err # proms[t].err

\* C7: forced teardown.  A destroy(S) called while S had a cached instance,
\* and that has returned normally, invoked the destroy callback (if the
\* Provider has one) with that instance, whatever the count was, and that
\* instance is no longer cached.
C7_ForcedTeardown ==
    \A x \in Kind("destroy") :
        (proms[x].had # 0 /\ proms[x].st = "ok") =>
            LET p == proms[x].p
                s == proms[x].bid
            IN /\ config[p].hasDestroy =>
                     \E t \in Teardowns :
                         proms[t].run /\ proms[t].w = proms[x].had /\ proms[t].st = "ok"
               /\ ~(MapHas(instances[p], s) /\ instances[p][s] = proms[x].had)

\* The dispose calls made by use.
UseDisposes == {d \in Kind("dispose") : ~proms[d].top}

\* C8: use performs get, then the callback with the instance get resolved
\* to, then dispose, once, after the callback has settled, whether it raised
\* or not.  The callback is invoked only after the get of use has fulfilled
\* and with its instance; the dispose of use is called only after the
\* callback has settled; every use whose callback has settled has called
\* dispose exactly once, on its own scope; a use that has returned after its
\* get fulfilled has done all three.
C8_UseDisposesOnce ==
    /\ \A u \in Kind("use") :
          LET g == proms[u].c1
              d == proms[u].c2
          IN /\ proms[g].k = "get" /\ SameScope(g, u)
             /\ proms[u].run <=> proms[g].st = "ok"
             /\ proms[u].run => proms[u].val = proms[g].val
             /\ proms[u].fnres # "none" => proms[u].run
             /\ d # 0 <=> proms[u].fnres # "none"
             /\ d # 0 => (proms[d].k = "dispose" /\ SameScope(d, u) /\ ~proms[d].top /\ d > g)
             /\ (Settled(u) /\ proms[g].st = "ok") => (d # 0 /\ Settled(d))
    /\ \A d \in UseDisposes : \E u \in Kind("use") : proms[u].c2 = d
    /\ Cardinality(UseDisposes) = Cardinality({u \in Kind("use") : proms[u].fnres # "none"})

\* A use whose callback raised has returned, having disposed, and that
\* dispose destroyed the instance.
C8_Witness ==
    \E u \in Kind("use") :
        /\ proms[u].fnres = "fail"
        /\ Settled(u)
        /\ proms[proms[u].c2].st = "ok"
        /\ proms[proms[u].c2].w \in Callbacks

\* C9: when the callback passed to use raises, use is rejected with the
\* callback's failure, whatever the dispose of its finally block did.
C9_UseRethrowsCallbackFailure ==
    \A u \in Kind("use") :
        (Settled(u) /\ proms[u].fnres = "fail") =>
            proms[u].st = "fail" /\ proms[u].err = Err("fn", u)

\* The keys of the three Maps of Provider p.
Keys(p) == DOMAIN instances[p] \cup DOMAIN counts[p] \cup DOMAIN destroying[p]

\* C10: singleton collapse.  Every call of get, dispose, destroy and use, on
\* a Provider with singleton set, works on scope 'singleton' whatever buildId
\* it was given: the Maps have no other key, the factory and the destroy
\* callback receive 'singleton', and two gets, whatever their buildIds, await
\* different builds only if the earlier one failed or was destroyed first.
\* Without singleton an omitted buildId is 'singleton' and a given one is
\* used as it is, and each Map entry is filed under the buildId of its build.
C10_SingletonCollapse ==
    /\ \A i \in Ids :
          proms[i].bid = IF config[proms[i].p].singleton \/ proms[i].arg = Undef
                         THEN Singleton ELSE proms[i].arg
    /\ \A p \in Providers :
          /\ config[p].singleton => Keys(p) \subseteq {Singleton}
          /\ Keys(p) \subseteq {proms[i].bid : i \in Ids}
          /\ \A s \in DOMAIN instances[p] :
                proms[instances[p][s]].k = "build" /\ proms[instances[p][s]].bid = s
          /\ \A s \in DOMAIN destroying[p] :
                proms[destroying[p][s]].k = "teardown" /\ proms[destroying[p][s]].bid = s
    /\ \A g1 \in Gets : \A g2 \in Gets :
          (config[proms[g1].p].singleton /\ proms[g1].p = proms[g2].p
                /\ Picked(g1) /\ Picked(g2) /\ proms[g1].w < proms[g2].w) =>
             (proms[proms[g1].w].st = "fail" \/ DestroyedBefore(proms[g1].w, proms[g2].w))

\* get('a') and get('b') of a singleton Provider returned the instance of
\* its one build, built for 'singleton' and counted twice under that key.
C10_Witness ==
    \E g1 \in Gets : \E g2 \in Gets :
        /\ config[proms[g1].p].singleton
        /\ proms[g1].arg = "a" /\ proms[g2].arg = "b"
        /\ proms[g1].st = "ok" /\ proms[g2].st = "ok"
        /\ proms[g1].val = proms[g2].val
        /\ Cardinality(Builds) = 1
        /\ proms[proms[g1].w].bid = Singleton
        /\ counts[proms[g1].p] = [s \in {Singleton} |-> 2]

\* What the three Maps of a Provider hold for scope s.
Entry(m, s) == IF MapHas(m, s) THEN <<m[s]>> ELSE << >>
Scopes == {proms[i].bid : i \in Ids}

\* The step was made by a call on scope s of Provider p: it made or moved one.
Touched(p, s) ==
    \E i \in 1..Len(proms') :
        /\ proms'[i].p = p /\ proms'[i].bid = s
        /\ i > Len(proms) \/ proms'[i] # proms[i]

\* Gets of one Provider without singleton on different scopes await
\* different builds, each of its own scope and with its own factory call.
DistinctPerScope ==
    \A g1 \in Gets : \A g2 \in Gets :
        (proms[g1].p = proms[g2].p /\ ~config[proms[g1].p].singleton
            /\ proms[g1].bid # proms[g2].bid /\ Picked(g1) /\ Picked(g2)) =>
          /\ proms[g1].w # proms[g2].w
          /\ SameScope(proms[g1].w, g1) /\ SameScope(proms[g2].w, g2)
          /\ (proms[g1].st = "ok" /\ proms[g2].st = "ok") => proms[g1].val # proms[g2].val

\* Only the steps of calls on scope s change what the Maps hold for s.
FrameStep ==
    \A p \in Providers : \A s \in Scopes \cup {proms'[i].bid : i \in 1..Len(proms')} :
        (~config[p].singleton /\ ~Touched(p, s)) =>
          /\ Entry(instances'[p], s) = Entry(instances[p], s)
          /\ Entry(counts'[p], s) = Entry(counts[p], s)
          /\ Entry(destroying'[p], s) = Entry(destroying[p], s)

\* C11: scope isolation.  For a Provider without singleton, get('a') and
\* get('b') await different builds, each its own factory invocation, and
\* return different instances; and no step of a get, dispose or destroy on
\* one scope changes the cached instance, the count or the recorded destroy
\* of another scope.
C11_ScopeIsolation == [](DistinctPerScope) /\ [][FrameStep]_vars

\* get('a') and get('b') returned different instances; a dispose('a') then
\* destroyed the instance of 'a' and left that of 'b' cached and counted once.
C11_Witness ==
    \E g1 \in Gets : \E g2 \in Gets : \E d \in Kind("dispose") :
        /\ proms[g1].bid = "a" /\ proms[g2].bid = "b" /\ proms[d].bid = "a"
        /\ proms[g1].st = "ok" /\ proms[g2].st = "ok" /\ proms[d].st = "ok"
        /\ proms[g1].val # proms[g2].val
        /\ proms[proms[d].w].run
        /\ ~MapHas(instances[proms[d].p], "a")
        /\ MapHas(instances[proms[d].p], "b")
        /\ instances[proms[d].p]["b"] = proms[g2].w
        /\ counts[proms[d].p] = [s \in {"b"} |-> 1]

\* Every call the application has made on the scope of call i is a k.
OnlyCalls(k, i) == \A j \in TopCalls : SameScope(i, j) => proms[j].k = k

\* C12: dispose(S) on a scope with no tracked instance is a no-op.  When the
\* application has only ever called dispose on S, every dispose that has
\* returned raised nothing and invoked no destroy callback, and the three
\* Maps hold nothing for S; and after dispose(S), get(S), dispose(S), made
\* one after another on a fresh Provider with a destroy callback, the
\* callback has been invoked as it would have been without the first dispose.
C12_DisposeUntrackedNoOp ==
    /\ \A d \in Kind("dispose") :
          (proms[d].top /\ Settled(d) /\ OnlyCalls("dispose", d)) =>
              /\ proms[d].st = "ok"
              /\ \A t \in Callbacks : ~SameScope(t, d)
              /\ proms[d].bid \notin Keys(proms[d].p)
    /\ (/\ Len(TopSeq) = 3 /\ OneAfterAnother
        /\ \A i \in 1..3 : SameScope(TopSeq[i], TopSeq[1]) /\ proms[TopSeq[i]].st = "ok"
        /\ proms[TopSeq[1]].k = "dispose" /\ proms[TopSeq[2]].k = "get"
        /\ proms[TopSeq[3]].k = "dispose"
        /\ config[proms[TopSeq[1]].p].hasDestroy) => Callbacks # {}

\* C13: destroy(S) called when S has no cached instance and no destroy in
\* flight completes as a no-op.  Such a destroy that has returned raised
\* nothing, invoked no destroy callback, and is not left recorded in
\* destroying; when destroy is the only call ever made on S the three Maps
\* hold nothing for S.
C13_DestroyUncachedNoOp ==
    \A x \in Kind("destroy") :
        (proms[x].top /\ Settled(x) /\ proms[x].had = 0 /\ proms[x].w = x + 1) =>
            /\ proms[x].st = "ok"
            /\ ~proms[proms[x].w].run
            /\ Entry(destroying[proms[x].p], proms[x].bid) # <<proms[x].w>>
            /\ OnlyCalls("destroy", x) => proms[x].bid \notin Keys(proms[x].p)

\* The count that the gets and disposes among the application's first n
\* calls leave: each get adds one, each dispose takes one but not below zero.
Counted(n) ==
    LET F[i \in 0..n] ==
            IF i = 0 THEN 0
            ELSE IF proms[TopSeq[i]].k = "get" THEN F[i - 1] + 1
                 ELSE Max(F[i - 1] - 1, 0)
    IN F[n]

\* C14: with disableDisposeDestroy set, dispose only counts.  Every dispose
\* returns at once without calling destroy, so every destroy execution was
\* started by an explicit destroy call; while the application has called no
\* destroy, no destroy callback has been invoked, every build that has not
\* failed is still cached, and the count is what the gets and disposes made
\* so far leave, never below zero.
C14_DisposeNeverDestroys ==
    \A p \in Providers :
        config[p].disableDisposeDestroy =>
          /\ \A d \in Kind("dispose") :
                proms[d].p = p => (proms[d].st = "ok" /\ proms[d].w = 0)
          /\ \A t \in Teardowns :
                proms[t].p = p => (proms[t - 1].k = "destroy" /\ proms[t - 1].w = t)
          /\ \A s \in DOMAIN counts[p] : counts[p][s] >= 0
          /\ Kind("destroy") = {} =>
                /\ Callbacks = {}
                /\ \A b \in Builds :
                      proms[b].st # "fail" => Entry(instances[p], proms[b].bid) = <<b>>
                /\ TopSeq # << >> =>
                      Entry(counts[p], proms[TopSeq[1]].bid) = <<Counted(Len(TopSeq))>>

\* get, dispose, dispose, destroy: the two disposes left the instance cached
\* with count 0 and invoked nothing; the destroy then ran the callback.
C14_Witness ==
    /\ Len(TopSeq) = 4
    /\ config[proms[TopSeq[1]].p].disableDisposeDestroy
    /\ proms[TopSeq[1]].k = "get" /\ proms[TopSeq[2]].k = "dispose"
    /\ proms[TopSeq[3]].k = "dispose" /\ proms[TopSeq[4]].k = "destroy"
    /\ \A i \in 1..4 : proms[TopSeq[i]].st = "ok"
    /\ proms[TopSeq[4]].had = proms[TopSeq[1]].w
    /\ Callbacks = {proms[TopSeq[4]].w}

\* The builds of Providers that declare dependencies.
DepBuilds == {b \in Builds : HasDeps(config[proms[b].p])}

\* C15: dependency injection is scope-consistent.  A build for scope S of a
\* Provider with dependencies calls get(S), once, on the Provider each
\* dependency names, in the order declared; its factory is invoked only
\* after every one of those gets has fulfilled, and receives under each
\* name the instance that get returned, which is the instance of a build of
\* that dependency for S.
C15_DepsScopeConsistent ==
    \A b \in DepBuilds :
        LET deps == config[proms[b].p].deps
            ch == proms[b].ch
        IN /\ proms[b].pc = "b_prov" => (ch = << >> /\ ~proms[b].run)
           /\ proms[b].pc # "b_prov" =>
                 /\ Len(ch) = Len(deps)
                 /\ \A n \in 1..Len(ch) :
                       /\ proms[ch[n]].k = "get"
                       /\ proms[ch[n]].p = deps[n].key
                       /\ proms[ch[n]].arg = proms[b].bid
                       /\ proms[ch[n]].bid = proms[b].bid
           /\ proms[b].run =>
                 /\ Len(proms[b].dv) = Len(deps)
                 /\ \A n \in 1..Len(ch) :
                       LET i == proms[ch[n]].w
                       IN /\ proms[ch[n]].st = "ok"
                          /\ proms[b].dv[n] = proms[ch[n]].val
                          /\ proms[i].k = "build" /\ proms[i].st = "ok"
                          /\ proms[i].p = deps[n].key /\ proms[i].bid = proms[b].bid
                          /\ proms[b].dv[n] = proms[i].val

\* get('a') of svc returned an instance built with the db instance that
\* the application's own get('a') of db returned.
C15_Witness ==
    \E g1 \in Gets : \E g2 \in Gets :
        /\ proms[g1].top /\ proms[g1].p = "svc" /\ proms[g1].st = "ok"
        /\ proms[g2].top /\ proms[g2].p = "db" /\ proms[g2].st = "ok"
        /\ proms[g1].arg = "a" /\ proms[g2].arg = "a"
        /\ proms[proms[g1].w].dv = <<proms[g2].val>>
\* The call that started destroy execution t.
Starter(t) == t - 1

\* Every destroy execution disposes of, and never destroys, the dependencies
\* of its Provider, for its own scope, and only after the destroy callback;
\* only the application calls destroy.
DisposesDeps ==
    \A t \in Teardowns :
        LET deps == config[proms[t].p].deps
            ds == proms[t].ds
        IN /\ proms[Starter(t)].k \in {"dispose", "destroy"} /\ proms[Starter(t)].w = t
           /\ proms[Starter(t)].k = "destroy" => proms[Starter(t)].top
           /\ proms[t].pc \in {"t_inst", "t_cb", "t_prov"} => ds = << >>
           /\ ds # << >> =>
                 /\ Len(ds) = Len(deps)
                 /\ \A n \in 1..Len(ds) :
                       /\ proms[ds[n]].k = "dispose" /\ ~proms[ds[n]].top
                       /\ proms[ds[n]].p = deps[n].key
                       /\ proms[ds[n]].bid = proms[t].bid

\* A destroy execution that a dispose starts on a cached instance starts
\* with the count of its scope at zero.
DestroyAtZero ==
    \A t \in (Len(proms) + 1)..Len(proms') :
        (proms'[t].k = "teardown" /\ proms'[t].w # 0 /\ proms'[t - 1].k = "dispose") =>
            counts'[proms'[t].p][proms'[t].bid] = 0

\* While the application has not called destroy on a scope, a count above
\* zero means that the instance is cached, unless its build failed, and that
\* no destroy execution has touched it.
HeldIsKept ==
    \A p \in Providers : \A s \in DOMAIN counts[p] :
        (/\ counts[p][s] > 0
         /\ \A x \in Kind("destroy") : ~(proms[x].p = p /\ proms[x].bid = s)) =>
            IF MapHas(instances[p], s)
            THEN \A t \in Teardowns : proms[t].w # instances[p][s]
            ELSE \E b \in Builds : proms[b].p = p /\ proms[b].bid = s /\ proms[b].st = "fail"

\* C16: destroying a Provider for S disposes of each declared dependency
\* for S and never destroys it: the dependency's own destroy runs only if
\* that dispose brought its count for S to zero, so a dependency still held
\* at S by another dependent or by the application keeps its instance.
C16_DestroyDisposesDeps == [](DisposesDeps /\ HeldIsKept) /\ [][DestroyAtZero]_vars

\* get('a') of svc, get('a') of db, destroy('a') of svc: the destroy of svc
\* disposed of db, which is still cached, counted once and not destroyed.
C16_Witness ==
    /\ Len(TopSeq) = 3
    /\ \A i \in 1..3 : proms[TopSeq[i]].st = "ok"
    /\ proms[TopSeq[1]].k = "get" /\ proms[TopSeq[1]].p = "svc"
    /\ proms[TopSeq[2]].k = "get" /\ proms[TopSeq[2]].p = "db"
    /\ proms[TopSeq[3]].k = "destroy" /\ proms[TopSeq[3]].p = "svc"
    /\ proms[proms[TopSeq[3]].w].run
    /\ Len(proms[proms[TopSeq[3]].w].ds) = 1
    /\ instances["db"] = [s \in {"a"} |-> proms[TopSeq[2]].w]
    /\ counts["db"] = [s \in {"a"} |-> 1]
    /\ \A t \in Teardowns : proms[t].p # "db"
    /\ ~MapHas(instances["svc"], "a")
\* The builds for scope s that have called get on Provider p as a dependency.
Dependents(p, s) ==
    {b \in DepBuilds :
        /\ proms[b].bid = s /\ proms[b].pc # "b_prov"
        /\ \E n \in 1..Len(config[proms[b].p].deps) : config[proms[b].p].deps[n].key = p}

\* C17: dependents share a dependency per scope.  While the application only
\* calls get: two builds, of whatever Providers, that were given an instance
\* of the same dependency were given the same instance if they build for the
\* same scope and different ones if not; a Provider has at most one build
\* per scope that has not failed, so its factory is invoked once; and its
\* count for a scope is the number of dependents that have asked for it plus
\* the gets the application made on it.
C17_SharedDependency ==
    /\ \A b1 \in DepBuilds : \A b2 \in DepBuilds :
          (proms[b1].run /\ proms[b2].run) =>
             \A n \in 1..Len(proms[b1].dv) : \A m \in 1..Len(proms[b2].dv) :
                config[proms[b1].p].deps[n].key = config[proms[b2].p].deps[m].key =>
                    (proms[b1].dv[n] = proms[b2].dv[m] <=> proms[b1].bid = proms[b2].bid)
    /\ \A b1 \in Builds : \A b2 \in Builds :
          (SameScope(b1, b2) /\ b1 # b2) => (proms[b1].st = "fail" \/ proms[b2].st = "fail")
    /\ \A p \in Providers : \A s \in Scopes :
          (IF MapHas(counts[p], s) THEN counts[p][s] ELSE 0) =
              Cardinality(Dependents(p, s))
              + Cardinality({g \in Gets : proms[g].top /\ proms[g].p = p /\ proms[g].bid = s})

\* get('a') of svc and, while it was pending, get('a') of api were built
\* with the one instance of db for 'a', which is counted twice.
C17_Witness ==
    \E g1 \in Gets : \E g2 \in Gets :
        /\ proms[g1].p = "svc" /\ proms[g1].bid = "a" /\ proms[g1].st = "ok"
        /\ proms[g2].p = "api" /\ proms[g2].bid = "a" /\ proms[g2].st = "ok"
        /\ g1 < g2 /\ ~proms[g2].quiet
        /\ proms[proms[g1].w].dv = proms[proms[g2].w].dv
        /\ Len(proms[proms[g1].w].dv) = 1
        /\ Cardinality({b \in Builds : proms[b].p = "db"}) = 1
        /\ counts["db"] = [s \in {"a"} |-> 2]

\* The dispose calls that destroy executions made on dependencies.
TeardownDisposes ==
    {d \in Kind("dispose") : \E t \in Teardowns : \E n \in 1..Len(proms[t].ds) : proms[t].ds[n] = d}

\* useProviders gets every named Provider for the buildId it was given,
\* calls fn only once all of them have fulfilled, with their instances, and
\* once fn has settled calls dispose, once, on every one of them.
UseProvidersSteps ==
    /\ \A u \in Kind("useall") :
          LET keys == proms[u].keys
              ch == proms[u].ch
              ds == proms[u].ds
          IN /\ proms[u].pc = "up_prov" => ch = << >>
             /\ ch # << >> =>
                   /\ Len(ch) = Len(keys)
                   /\ \A n \in 1..Len(ch) :
                         /\ proms[ch[n]].k = "get" /\ proms[ch[n]].p = keys[n].key
                         /\ proms[ch[n]].arg = proms[u].arg
             /\ proms[u].run =>
                   /\ ch # << >>
                   /\ \A n \in 1..Len(ch) :
                         proms[ch[n]].st = "ok" /\ proms[u].dv[n] = proms[ch[n]].val
             /\ proms[u].fnres # "none" => proms[u].run
             /\ proms[u].fnres # "none" <=> ds # << >>
             /\ ds # << >> =>
                   /\ Len(ds) = Len(keys)
                   /\ \A n \in 1..Len(ds) :
                         /\ proms[ds[n]].k = "dispose" /\ proms[ds[n]].p = keys[n].key
                         /\ proms[ds[n]].arg = proms[u].arg
                         /\ \A m \in 1..Len(ch) : ds[n] > ch[m]
                         /\ \A m \in 1..Len(ds) : ds[n] = ds[m] => n = m
             /\ (Settled(u) /\ proms[u].run) => ds # << >>
    /\ \A d \in Kind("dispose") \ TeardownDisposes :
          \E u \in Kind("useall") : \E n \in 1..Len(proms[u].ds) : proms[u].ds[n] = d

\* C18: useProviders(keys, fn, S).  Once every named Provider has been
\* acquired with get(S), fn runs with the instances; after fn has settled
\* dispose(S) is called exactly once on every one of the Providers, whether
\* fn returned or raised; and a useProviders that has returned returned the
\* result of fn or was rejected with the failure of fn.
C18_UseProvidersDisposesAll ==
    /\ UseProvidersSteps
    /\ \A u \in Kind("useall") :
          /\ (Settled(u) /\ proms[u].fnres = "ok") => (proms[u].st = "ok" /\ proms[u].val = u)
          /\ (Settled(u) /\ proms[u].fnres = "fail") =>
                (proms[u].st = "fail" /\ proms[u].err = Err("fn", u))

\* The edges of the declared graph: key -> dependency key, both declared.
Edges(contents) ==
    {e \in DeclKeys \X DeclKeys :
        \E i, j \in 1..Len(contents) :
            /\ contents[i].key = e[1] /\ contents[j].key = e[2]
            /\ \E n \in 1..Len(contents[i].deps) : contents[i].deps[n] = e[2]}

\* The pairs joined by a path of n edges or fewer, n >= 1.
Paths(E, n) ==
    LET R[k \in 1..n] ==
            IF k = 1 THEN E
            ELSE R[k - 1] \cup {e \in DeclKeys \X DeclKeys :
                                  \E m \in DeclKeys : <<e[1], m>> \in R[k - 1] /\ <<m, e[2]>> \in E}
    IN R[n]

\* The declared graph has a directed cycle: some key reaches itself.
HasCycle(contents) ==
    \E k \in DeclKeys : <<k, k>> \in Paths(Edges(contents), Cardinality(DeclKeys))

\* The traversal has been made.
Analysed == cli.pc \in {"emit", "failed", "done"}

\* C19: cycle detection is exact.  After the traversal, at least one cycle
\* is recorded if and only if the declared graph, key -> dependency keys
\* among the declared keys, has a directed cycle (a self-dependency is one);
\* and every recorded cycle is a cycle of that graph: it ends with the key
\* it starts with and each key depends on the next.
C19_CycleDetectionExact ==
    Analysed =>
        /\ Len(cli.cycles) > 0 <=> HasCycle(cli.contents)
        /\ \A i \in 1..Len(cli.cycles) :
              LET c == cli.cycles[i]
              IN /\ Len(c) >= 2 /\ c[1] = c[Len(c)]
                 /\ \A n \in 1..(Len(c) - 1) : <<c[n], c[n + 1]>> \in Edges(cli.contents)

\* A -> B -> C -> A was discovered and the cycle A, B, C, A recorded.
C19_Witness ==
    /\ Analysed
    /\ Graph(cli.contents) = [k \in DeclKeys |->
                                 IF k = "A" THEN <<"B">> ELSE IF k = "B" THEN <<"C">> ELSE <<"A">>]
    /\ cli.contents[1].key = "A"
    /\ cli.cycles = << <<"A", "B", "C", "A">> >>

\* C20: generation aborts on a cycle.  When a cycle was recorded generate
\* fails and what it wrote to the output path is the placeholder registry
\* and nothing else; when none was, it goes on and, having finished, has
\* written the placeholder and then the registry with a loader for every
\* discovered key.  Nothing but these two is ever written, in this order.
C20_AbortOnCycle ==
    /\ cli.pc \in {"idle", "start"} => cli.out = << >>
    /\ cli.pc \in {"scan", "check", "emit", "failed"} => cli.out = <<Placeholder>>
    /\ Analysed => (cli.pc = "failed" <=> Len(cli.cycles) > 0)
    /\ cli.pc = "done" =>
          /\ cli.out = <<Placeholder, Registry(cli.contents)>>
          /\ {cli.out[2].providerMap[i] : i \in 1..Len(cli.out[2].providerMap)}
                = {cli.contents[i].key : i \in 1..Len(cli.contents)}

\* generate found the self-dependency of A and failed, having written the
\* placeholder only.
C20_Witness ==
    /\ cli.pc = "failed"
    /\ cli.contents = <<[key |-> "A", deps |-> <<"A">>]>>
    /\ cli.cycles = << <<"A", "A">> >>
    /\ cli.out = <<Placeholder>>

\* C21: the command generate ends with a non-zero exit status whenever
\* generation failed on a dependency cycle, and with exit status 0 when it
\* succeeded.
C21_ExitStatus ==
    cli.exit # << >> =>
        /\ cli.pc = "failed" => cli.exit[1] # 0
        /\ cli.pc = "done" => cli.exit[1] = 0

\* C22: in every reachable state of a Provider, under any interleaving of
\* get, dispose, destroy and use, builds that fail included, a scope whose
\* reference count is positive has an entry in instances.
C22_CountedIsCached ==
    \A p \in Providers : \A s \in DOMAIN counts[p] :
        counts[p][s] > 0 => MapHas(instances[p], s)

\* The count of scope s: counts.get(s) || 0.
CountOf(m, s) == IF MapHas(m, s) THEN m[s] ELSE 0

\* A dispose called on a count of zero, or on no count, leaves zero.
DisposeClamps ==
    \A d \in (Len(proms) + 1)..Len(proms') :
        (proms'[d].k = "dispose" /\ CountOf(counts[proms'[d].p], proms'[d].bid) = 0) =>
            Entry(counts'[proms'[d].p], proms'[d].bid) = <<0>>

\* C23: in every reachable state every reference count a Provider stores is
\* a non-negative integer, and a dispose(S) on a count of zero, or on an
\* absent count, leaves it at zero.
C23_CountNeverNegative ==
    /\ [](\A p \in Providers : \A s \in DOMAIN counts[p] : counts[p][s] \in Nat)
    /\ [][DisposeClamps]_vars

\* get, dispose, dispose, dispose, one after another: the second and third
\* dispose found no count, and the count is 0.
C23_Witness ==
    /\ Len(TopSeq) = 4
    /\ AllReturned
    /\ \A i \in 1..4 : proms[TopSeq[i]].k = IF i = 1 THEN "get" ELSE "dispose"
    /\ \A i \in 1..4 : proms[TopSeq[i]].st = "ok"
    /\ \A p \in Providers : Entry(counts[p], "a") = <<0>>

\* C24: get/dispose cycles are balanced.  On a Provider with a destroy
\* callback and without disableDisposeDestroy, whenever no call is in
\* progress and scope S has no cached instance (after over-disposing and
\* after a destroy included), a get(S) that succeeds followed by a
\* dispose(S) invokes the factory exactly once and the destroy callback
\* exactly once, and that callback has completed when the dispose returns.
C24_BalancedCycles ==
    \A i \in 1..(Len(TopSeq) - 1) :
        LET g == TopSeq[i]
            d == TopSeq[i + 1]
            end == IF i + 2 <= Len(TopSeq) THEN TopSeq[i + 2] ELSE Len(proms) + 1
        IN (/\ proms[g].k = "get" /\ proms[g].st = "ok" /\ proms[g].had = 0
            /\ proms[d].k = "dispose" /\ Settled(d)
            /\ config[proms[g].p].hasDestroy /\ ~config[proms[g].p].disableDisposeDestroy) =>
              /\ Cardinality({b \in Builds : g < b /\ b < d /\ proms[b].run}) = 1
              /\ Cardinality({t \in Callbacks : d < t /\ t < end /\ Settled(t)}) = 1

\* C25: until a resolver is installed the Resolver Hook fails with 'not
\* initialized'.  A get on a Provider that declares a dependency, made before
\* the installation, fails with that error: its build calls no dependency
\* and no factory, and is not left in instances.  A Provider that declares
\* none never calls the hook: its factory is invoked at once.
C25_ResolverNotInitialized ==
    /\ ~resolver.installed =>
          \A p \in Providers :
              /\ HasDeps(config[p]) =>
                    getProviders(resolver, config[p].deps) = Rejected(Err("uninit", 0))
              /\ \A b \in Builds :
                    HasDeps(config[proms[b].p]) => proms[b].hook = Rejected(Err("uninit", 0))
    /\ \A b \in Builds :
          IF HasDeps(config[proms[b].p])
          THEN proms[b].hook.err = Err("uninit", 0) =>
                 /\ ~proms[b].run /\ proms[b].ch = << >>
                 /\ proms[b].st # "ok"
                 /\ Settled(b) =>
                       /\ proms[b].err = Err("uninit", 0)
                       /\ Entry(instances[proms[b].p], proms[b].bid) # <<b>>
                 /\ \A g \in Gets :
                       (proms[g].w = b /\ Settled(g)) =>
                           (proms[g].st = "fail" /\ proms[g].err = Err("uninit", 0))
          ELSE proms[b].hook = NotCalled /\ proms[b].run

\* No resolver is installed: a get of svc has failed with 'not initialized'
\* and left nothing cached, a get of db has returned its instance.
C25_Witness ==
    /\ ~resolver.installed
    /\ \E g \in Gets :
          /\ proms[g].p = "svc" /\ proms[g].st = "fail" /\ proms[g].err = Err("uninit", 0)
          /\ instances["svc"] = EmptyMap
    /\ \E g \in Gets : proms[g].p = "db" /\ proms[g].st = "ok"

\* With every requested key registered, getProviders returns the same local
\* names, each bound to the Provider its key loads; no get is ever called.
ResolvesRegistered ==
    /\ \A r \in Kind("resolve") :
          (/\ Settled(r)
           /\ \A i \in 1..Len(proms[r].keys) : MapHas(resolver.loaders, proms[r].keys[i].key)) =>
              /\ proms[r].st = "ok"
              /\ proms[r].hook.providers =
                    [i \in 1..Len(proms[r].keys) |->
                        Dep(proms[r].keys[i].name, resolver.loaders[proms[r].keys[i].key])]
    /\ Gets = {}
    /\ \A p \in Providers : counts[p] = EmptyMap /\ instances[p] = EmptyMap

\* C26: the generated resolver fails the whole call with 'not found' if any
\* requested key has no registered loader, and returns no Provider then; if
\* every requested key is registered it returns the same local names, each
\* bound to the Provider loaded for its key, and calls get on none.
C26_GeneratedResolver ==
    /\ ResolvesRegistered
    /\ \A r \in Kind("resolve") :
          (/\ Settled(r)
           /\ \E i \in 1..Len(proms[r].keys) : ~MapHas(resolver.loaders, proms[r].keys[i].key)) =>
              /\ proms[r].st = "fail" /\ proms[r].err.k = "notfound"
              /\ proms[r].hook.providers = << >>

\* The Providers flagged eager and the ones they depend on, directly or not.
EagerClosure ==
    LET R[n \in 0..Cardinality(Providers)] ==
            IF n = 0 THEN {resolver.eager[i] : i \in 1..Len(resolver.eager)}
            ELSE R[n - 1] \cup UNION {{config[p].deps[i].key : i \in 1..Len(config[p].deps)} :
                                          p \in R[n - 1]}
    IN R[Cardinality(Providers)]

\* C27: startProviders resolves exactly the Providers flagged eager and
\* calls get() without a scope on each of them, so on scope 'singleton'; it
\* returns, under each eager key, the instance that Provider built.  A
\* Provider that is not eager is built only if an eager one depends on it,
\* directly or through others.
C27_StartProviders ==
    /\ \A u \in Kind("start") :
          LET eager == resolver.eager
              ch == proms[u].ch
          IN /\ proms[u].keys = [i \in 1..Len(eager) |-> Dep(eager[i], eager[i])]
             /\ proms[u].pc = "sp_prov" => ch = << >>
             /\ proms[u].pc # "sp_prov" =>
                   /\ Len(ch) = Len(eager)
                   /\ \A i \in 1..Len(ch) :
                         /\ proms[ch[i]].k = "get" /\ proms[ch[i]].p = eager[i]
                         /\ proms[ch[i]].arg = Undef /\ proms[ch[i]].bid = Singleton
             /\ proms[u].st = "ok" =>
                   /\ Len(proms[u].dv) = Len(eager)
                   /\ \A i \in 1..Len(eager) :
                         LET b == instances[eager[i]][Singleton]
                         IN /\ proms[b].k = "build" /\ proms[b].p = eager[i]
                            /\ proms[b].st = "ok" /\ proms[u].dv[i] = proms[b].val
    /\ \A g \in Gets : proms[g].top = FALSE /\ proms[g].bid = Singleton
    /\ \A b \in Builds : proms[b].p \in EagerClosure

\* svc alone is eager: startProviders has returned its instance, db was
\* built for it, api was not.
C27_Witness ==
    /\ resolver.eager = <<"svc">>
    /\ \E u \in Kind("start") : proms[u].st = "ok" /\ Len(proms[u].dv) = 1
    /\ {proms[b].p : b \in Builds} = {"svc", "db"}
    /\ instances["api"] = EmptyMap

\* The builds of scope s of Provider p that have not settled.
InProgress(p, s) ==
    {b \in Builds : proms[b].p = p /\ proms[b].bid = s /\ proms[b].st = "pend"}

\* C28: at most one concurrent build.  In every reachable state, under any
\* interleaving of get, dispose and destroy, with builds and destroy
\* callbacks that may fail, each Provider has at most one build, and so at
\* most one factory invocation, in progress per effective scope, and it is
\* the entry of instances for that scope; every entry of instances is one
\* build of that Provider and scope.
C28_AtMostOneBuild ==
    \A p \in Providers :
        /\ \A s \in Scopes :
              /\ Cardinality(InProgress(p, s)) <= 1
              /\ \A b \in InProgress(p, s) : Entry(instances[p], s) = <<b>>
        /\ \A s \in DOMAIN instances[p] :
              LET b == instances[p][s]
              IN proms[b].k = "build" /\ proms[b].p = p /\ proms[b].bid = s

\* Three gets of scope a were made while its one factory invocation was in
\* progress.
C28_Witness ==
    \E p \in Providers :
        /\ \E b \in InProgress(p, "a") : proms[b].run
        /\ Cardinality({g \in Gets : proms[g].bid = "a" /\ proms[g].st = "pend"}) = 3

\* C29: no stuck destroy state.  An entry of destroying is removed once the
\* destroy execution it records has finished, whether that fulfilled,
\* rejected or found no instance: every entry is an execution in progress,
\* and when no operation is in progress destroying is empty.
C29_NoStuckDestroy ==
    \A p \in Providers :
        /\ \A s \in DOMAIN destroying[p] : proms[destroying[p][s]].st = "pend"
        /\ (\A i \in Ids : Settled(i)) => destroying[p] = EmptyMap

\* The gets among the first n calls on scope s of Provider p that have
\* passed line 632, and the disposes among them.
Increments(p, s, n) ==
    {g \in 1..n : /\ proms[g].k = "get" /\ proms[g].p = p /\ proms[g].bid = s
                  /\ proms[proms[g].w].k = "build"}
Decrements(p, s, n) ==
    {d \in 1..n : proms[d].k = "dispose" /\ proms[d].p = p /\ proms[d].bid = s}
\* No destroy of scope s has completed.
NoneDestroyed(p, s) ==
    \A t \in Teardowns : (proms[t].p = p /\ proms[t].bid = s) => proms[t].st # "ok"

\* One step changes the count of a scope as one call does: a get that
\* passes line 632 adds one, a dispose takes one but not below zero, the
\* deletes of a destroy remove it, anything else leaves it.
CountStep ==
    \A p \in Providers : \A s \in CoreIds :
        LET c == CountOf(counts[p], s)
            incs == Increments(p, s, Len(proms))' \ Increments(p, s, Len(proms))
            decs == Decrements(p, s, Len(proms))' \ Decrements(p, s, Len(proms))
            dels == {t \in Teardowns : /\ proms[t].p = p /\ proms[t].bid = s
                                       /\ proms[t].st = "pend" /\ proms'[t].st = "ok"}
        IN /\ Cardinality(incs) + Cardinality(decs) + Cardinality(dels) <= 1
           /\ CountOf(counts'[p], s) =
                 IF dels # {} THEN 0
                 ELSE IF decs # {} THEN (IF c = 0 THEN 0 ELSE c - 1)
                 ELSE c + Cardinality(incs)

\* C30: reference-count updates are atomic and never lost.  Each get(S)
\* that passes line 632 adds exactly one to the count of S, whether it
\* started the build or reused one, each dispose(S) subtracts one clamped at
\* zero, each in one step; so while no destroy of S has completed and no
\* dispose was called when there were not more gets than disposes before
\* it, the count of S after k such gets and j disposes is k - j.
C30_CountBalance ==
    /\ [][CountStep]_vars
    /\ [](\A p \in Providers : \A s \in CoreIds :
            (/\ NoneDestroyed(p, s)
             /\ \A d \in Decrements(p, s, Len(proms)) :
                   Cardinality(Decrements(p, s, d)) <= Cardinality(Increments(p, s, d))) =>
                CountOf(counts[p], s) = Cardinality(Increments(p, s, Len(proms)))
                                          - Cardinality(Decrements(p, s, Len(proms))))

\* Two gets made while the build was pending and a dispose, all returned:
\* the count is 1 and nothing was destroyed.
C30_Witness ==
    /\ Len(TopSeq) = 3 /\ AllReturned
    /\ proms[TopSeq[1]].k = "get" /\ proms[TopSeq[2]].k = "get"
    /\ ~proms[TopSeq[2]].quiet
    /\ proms[TopSeq[3]].k = "dispose"
    /\ \A i \in 1..3 : proms[TopSeq[i]].st = "ok"
    /\ Teardowns = {}
    /\ \A p \in Providers : Entry(counts[p], "a") = <<1>>

\* C30 as the specification words it: after k successful get(S) and
\* j <= k dispose(S), in any order, with no destroy of S completed, the count
\* of S is k - j.
C30_CountIsGetsMinusDisposes ==
    \A p \in Providers : \A s \in CoreIds :
        LET gets == {g \in Gets : proms[g].p = p /\ proms[g].bid = s}
            k == Cardinality(gets)
            j == Cardinality(Decrements(p, s, Len(proms)))
        IN (/\ \A g \in gets : proms[g].st = "ok"
            /\ j <= k
            /\ NoneDestroyed(p, s)) =>
               CountOf(counts[p], s) = k - j

\* What a destroy execution that found a cached build has done so far, by
\* where it is.
TeardownOrder ==
    \A t \in Teardowns :
        proms[t].w # 0 =>
            LET b == proms[t].w
                p == proms[t].p
                sc == proms[t].bid
                deps == config[p].deps
                ds == proms[t].ds
            IN /\ proms[t].pc = "t_inst" => (~proms[t].run /\ ds = << >>)
               /\ proms[t].run =>
                     (proms[b].k = "build" /\ proms[b].st = "ok" /\ proms[t].val = proms[b].val)
               /\ proms[t].pc \in {"t_cb", "t_prov"} => ds = << >>
               /\ ds # << >> =>
                     /\ config[p].hasDestroy => proms[t].run
                     /\ Len(ds) = Len(deps)
                     /\ \A n \in 1..Len(ds) :
                           /\ proms[ds[n]].k = "dispose" /\ ~proms[ds[n]].top
                           /\ proms[ds[n]].p = deps[n].key
                           /\ proms[ds[n]].bid = sc
               /\ proms[t].st = "pend" =>
                     /\ Entry(destroying[p], sc) = <<t>>
                     /\ proms[b].st = "ok" => Entry(instances[p], sc) = <<b>>
               /\ proms[t].st = "ok" =>
                     /\ HasDeps(config[p]) => Len(ds) = Len(deps)
                     /\ \A n \in 1..Len(ds) : proms[ds[n]].st = "ok"

\* An entry of destroying is removed only in the step that ends its
\* execution, with the other entries of the scope, when every disposal of
\* a dependency has fulfilled.
RemovedAfterDisposals ==
    \A p \in Providers : \A sc \in CoreIds :
        (MapHas(destroying[p], sc) /\ ~MapHas(destroying'[p], sc)) =>
            LET t == destroying[p][sc]
            IN /\ proms[t].st = "pend" /\ proms'[t].st = "ok"
               /\ \A n \in 1..Len(proms'[t].ds) : proms'[proms'[t].ds[n]].st = "ok"
               /\ ~MapHas(instances'[p], sc) /\ ~MapHas(counts'[p], sc)

\* C31: teardown order inside destroy(S).  The cached build is awaited
\* first; the destroy callback is invoked only once it has fulfilled, with
\* the instance it resolved to; dispose(S) is called on the Provider of
\* each declared dependency, once per declared name, only after the
\* callback has completed; the entries of the scope are removed only after
\* every one of those disposals has completed.
C31_TeardownOrder == [](TeardownOrder) /\ [][RemovedAfterDisposals]_vars

\* svc, which declares db under two names, was destroyed: its callback ran,
\* db was disposed of twice, the second disposal destroyed db, and then the
\* entries of svc were removed.
C31_Witness ==
    \E t \in Teardowns :
        /\ proms[t].p = "svc" /\ proms[t].st = "ok" /\ proms[t].run
        /\ Len(proms[t].ds) = 2
        /\ proms[proms[proms[t].ds[2]].w].run
        /\ \A p \in Providers : instances[p] = EmptyMap /\ destroying[p] = EmptyMap

\* The current path is the keys of the calls of dfs in progress, each once,
\* each a dependency of the one before; the recursion set holds its keys.
PathIsStack ==
    LET path == cli.st.path
    IN /\ path = [i \in 1..Len(cli.frames) |-> cli.frames[i].key]
       /\ cli.st.recursionStack = {path[i] : i \in 1..Len(path)}
       /\ \A i, j \in 1..Len(path) : path[i] = path[j] => i = j
       /\ \A i \in 1..(Len(path) - 1) : <<path[i], path[i + 1]>> \in Edges(cli.contents)

\* A cycle ends with the key it starts with and each key depends on the
\* next.
RealCycle(c) ==
    /\ Len(c) >= 2 /\ c[1] = c[Len(c)]
    /\ \A n \in 1..(Len(c) - 1) : <<c[n], c[n + 1]>> \in Edges(cli.contents)

\* A step records at most one cycle, after those recorded: the keys of the
\* current path from the revisited key on, then the revisited key, which
\* is a dependency of the current key.
RecordsSlice ==
    LET old == cli.st.cycles
        new == cli'.st.cycles
        path == cli.st.path
    IN \/ new = old
       \/ /\ Len(new) = Len(old) + 1 /\ SubSeq(new, 1, Len(old)) = old
          /\ cli'.st.path = path /\ path # << >>
          /\ LET c == new[Len(new)]
                 key == c[Len(c)]
             IN /\ key \in cli.st.recursionStack
                /\ <<path[Len(path)], key>> \in Edges(cli.contents)
                /\ \E i \in 1..Len(path) :
                      /\ path[i] = key
                      /\ \A j \in 1..(i - 1) : path[j] # key
                      /\ c = [n \in 1..(Len(path) - i + 2) |->
                                 IF n = Len(path) - i + 2 THEN key ELSE path[i + n - 1]]

\* C32: every recorded cycle is a real cycle of the declared graph.  Each is
\* recorded when a call of dfs finds its key on the current path, as the
\* slice of the path from the first occurrence of that key through the
\* current key, followed by that key; so, after every step and in what
\* generate ends with, a recorded cycle ends with the key it starts with and
\* each of its keys declares the next as a dependency.
C32_RecordedCycleIsReal ==
    [][/\ cli.pc = "dfs" => RecordsSlice
       /\ (cli.pc = "dfs" => PathIsStack)'
       /\ (\A i \in 1..Len(cli.st.cycles) : RealCycle(cli.st.cycles[i]))'
       /\ (\A i \in 1..Len(cli.cycles) : RealCycle(cli.cycles[i]))']_vars

\* A -> B -> C -> B: the call of dfs on B made from C, with the path A, B, C,
\* recorded B, C, B.
C32_Witness ==
    /\ cli.pc = "dfs"
    /\ cli.st.path = <<"A", "B", "C">>
    /\ cli.st.cycles = << <<"B", "C", "B">> >>

\* The simple directed cycles of the declared graph, each as the list of
\* its keys from any one of them: different keys, each a dependency of the
\* one before and the first of the last.
SimpleCycles(contents) ==
    {q \in KeyOrders :
        /\ q # << >>
        /\ \A i \in 1..Len(q) :
              <<q[i], q[(i % Len(q)) + 1]>> \in Edges(contents)}

\* Recorded cycle c is simple cycle q, from some key of it.
IsRotation(c, q) ==
    /\ Len(c) = Len(q) + 1
    /\ \E r \in 0..(Len(q) - 1) :
          \A i \in 1..Len(c) : c[i] = q[((i - 1 + r) % Len(q)) + 1]

\* Recorded cycle c was closed by the dependency of key a on key b.
ClosedBy(c, a, b) == c[Len(c) - 1] = a /\ c[Len(c)] = b

\* C33, amended: when generation fails on cycles, every recorded cycle is
\* carried by the error, in the order recorded; every simple directed cycle
\* of the declared graph contains the dependency that closed some recorded
\* cycle (its last key but one on its last key), so no cycle is left
\* uncovered, though not every cycle is itself recorded.
C33_RecordedCyclesReported ==
    /\ (cli.pc = "failed" /\ cli.exit # << >>) => cli.stderr = <<cli.cycles>>
    /\ Analysed =>
          \A q \in SimpleCycles(cli.contents) :
              \E i \in 1..Len(q) : \E n \in 1..Len(cli.cycles) :
                  ClosedBy(cli.cycles[n], q[i], q[(i % Len(q)) + 1])

\* generate failed on two cycles that share no key, and the error printed
\* carries both.
C33_Witness ==
    /\ cli.pc = "failed" /\ cli.exit # << >>
    /\ Len(cli.cycles) = 2
    /\ \A i \in 1..Len(cli.cycles[1]) : \A j \in 1..Len(cli.cycles[2]) :
          cli.cycles[1][i] # cli.cycles[2][j]
    /\ cli.stderr = <<cli.cycles>>

\* C33 as the specification words it: when generation fails on cycles,
\* every simple directed cycle of the declared graph appears, up to
\* rotation, among the recorded cycles the error carries.
C33_EverySimpleCycleReported ==
    (cli.pc = "failed" /\ cli.exit # << >>) =>
        \A q \in SimpleCycles(cli.contents) :
            \E n \in 1..Len(cli.stderr) : \E i \in 1..Len(cli.stderr[n]) :
                IsRotation(cli.stderr[n][i], q)

\* The declared keys.
Declared(c) == {c.contents[i].key : i \in 1..Len(c.contents)}

\* What is left of the traversal: the turns of the loop over the
\* declarations, the call and the turns of the loop of each declared key
\* not yet visited, the turns left to the calls in progress, the end.
Remaining(c) ==
    IF c.pc # "dfs" THEN 0
    ELSE LET U[i \in 0..Len(c.contents)] ==
                 IF i = 0 THEN 0
                 ELSE U[i - 1] + IF c.contents[i].key \in c.st.visited THEN 0
                                 ELSE Len(c.contents[i].deps) + 2
             W[n \in 0..Len(c.frames)] ==
                 IF n = 0 THEN 0
                 ELSE W[n - 1] + Len(Graph(c.contents)[c.frames[n].key]) + 2 - c.frames[n].i
         IN 1 + (Len(c.contents) + 1 - c.root) + U[Len(c.contents)] + W[Len(c.frames)]

\* A step of the traversal.
DfsStep == DfsRoot \/ DfsDep \/ DfsLeave \/ DfsEnd

\* What a step of the traversal does and leaves.
TraversalStep ==
    /\ Remaining(cli') < Remaining(cli) /\ Remaining(cli') >= 0
    /\ cli.st.visited \subseteq cli'.st.visited
    /\ cli'.st.visited \subseteq Declared(cli)
    /\ cli'.root \in {cli.root, cli.root + 1}
    \* a call is made from the loop over the declarations only when no call
    \* is in progress, on the next declaration
    /\ cli'.root # cli.root =>
          /\ cli.frames = << >>
          /\ Len(cli'.frames) <= 1
          /\ cli'.frames # << >> => cli'.frames[1].key = cli.contents[cli.root].key
    \* a key is expanded when it is declared and was not visited, and then
    \* it is visited
    /\ Len(cli'.frames) > Len(cli.frames) =>
          LET key == cli'.frames[Len(cli'.frames)].key
          IN /\ Len(cli'.frames) = Len(cli.frames) + 1
             /\ key \in Declared(cli)
             /\ key \notin cli.st.visited /\ key \in cli'.st.visited
             /\ cli'.st.visited = cli.st.visited \cup {key}
    /\ Len(cli'.frames) <= Len(cli.frames) => cli'.st.visited = cli.st.visited
    \* the traversal ends with every declared key visited and nothing on the
    \* path or in the recursion set
    /\ cli'.pc # "dfs" =>
          /\ cli.root = Len(cli.contents) + 1
          /\ cli.st.visited = Declared(cli)
          /\ cli.st.path = << >> /\ cli.st.recursionStack = {}
          /\ cli.frames = << >>
          /\ cli'.st = cli.st
    \* and until then it can go on
    /\ (cli.pc = "dfs" => ENABLED DfsStep)'

\* C34: the cycle-detection traversal terminates on every finite
\* declaration list, cyclic or not.  Every step of it lessens what is left of
\* it, which is never less than nothing, and until it has ended a step can
\* be made; roots are taken in declaration order; a key is expanded only
\* when it is declared and was not visited before, so at most once, and a
\* dependency on an undeclared key is skipped; when the traversal ends every
\* declared key is visited and the path and the recursion set are empty.
C34_TraversalTerminates == [][cli.pc = "dfs" => TraversalStep]_vars

\* The traversal of A -> B, A -> C, B -> A, with C not declared, has ended:
\* one cycle, every declared key visited, path and recursion set empty.
C34_Witness ==
    /\ cli.pc = "failed"
    /\ cli.contents = <<[key |-> "A", deps |-> <<"B", "C">>],
                        [key |-> "B", deps |-> <<"A">>]>>
    /\ cli.st = [cycles |-> << <<"A", "B", "A">> >>, visited |-> {"A", "B"},
                 recursionStack |-> {}, path |-> << >>]
    /\ cli.root = 3 /\ cli.frames = << >>

\* The application has made gets and disposes only, one after another; all
\* have returned and the only failures are gets whose build failed.
OnlyBuildFailures ==
    /\ AllReturned /\ OneAfterAnother
    /\ \A i \in TopCalls :
          /\ proms[i].k \in {"get", "dispose"}
          /\ proms[i].st = "fail" => (proms[i].k = "get" /\ proms[i].err.k = "build")

\* The holders of scope s the application's calls leave: a get that
\* fulfilled adds one, a dispose takes one if there is one, a get that
\* failed none.
Holders(p, s) ==
    LET q == TopSeq
        F[n \in 0..Len(q)] ==
            IF n = 0 THEN 0
            ELSE LET c == proms[q[n]]
                 IN IF c.p # p \/ c.bid # s THEN F[n - 1]
                    ELSE IF c.k = "get" THEN (IF c.st = "ok" THEN F[n - 1] + 1 ELSE F[n - 1])
                    ELSE IF F[n - 1] = 0 THEN 0 ELSE F[n - 1] - 1
    IN F[Len(q)]

\* C35: a get(S) that fails because the build failed does not count as a
\* holder.  After calls made one after another of which only such gets
\* failed, the reference count of S is the number of holders the other calls
\* leave; so after a failed get(S), a successful get(S) and one dispose(S)
\* the count is zero and the destroy callback has been invoked.
C35_FailedGetIsNoHolder ==
    OnlyBuildFailures =>
        \A p \in Providers :
            /\ \A s \in CoreIds : CountOf(counts[p], s) = Holders(p, s)
            /\ (/\ Len(TopSeq) = 3 /\ config[p].hasDestroy
                /\ proms[TopSeq[1]].k = "get" /\ proms[TopSeq[1]].st = "fail"
                /\ proms[TopSeq[2]].k = "get" /\ proms[TopSeq[2]].st = "ok"
                /\ proms[TopSeq[3]].k = "dispose") =>
                   Callbacks # {}

\* The application has made gets only, one after another; all have
\* returned, and the builds that failed are builds of Providers with
\* dependencies whose own factory raised.
OnlyOwnFactoryFailures ==
    /\ AllReturned /\ OneAfterAnother
    /\ \A i \in TopCalls : proms[i].k = "get"
    /\ \A b \in Builds :
          proms[b].st = "fail" => (HasDeps(config[proms[b].p]) /\ proms[b].run)

\* The names under which the fulfilled builds for scope s declare Provider d.
AcquiredBy(d, s) ==
    {x \in Builds \X (1..MaxDeps) :
        /\ proms[x[1]].st = "ok" /\ proms[x[1]].bid = s
        /\ x[2] <= Len(config[proms[x[1]].p].deps)
        /\ config[proms[x[1]].p].deps[x[2]].key = d}

\* C36: a build that fails after dependencies were acquired releases what
\* it acquired.  After gets made one after another, of which some failed
\* because the factory of a Provider with dependencies raised, the
\* reference count for S of each Provider that is only a dependency is what
\* the gets that succeeded account for: one for each fulfilled get(S) the
\* application made on it and one for each name under which a fulfilled
\* build for S declares it; a build that failed has left nothing.
C36_FailedBuildReleasesDeps ==
    OnlyOwnFactoryFailures =>
        \A d \in {p \in Providers : ~HasDeps(config[p])} : \A s \in CoreIds :
            CountOf(counts[d], s) =
                Cardinality({g \in Gets : /\ proms[g].top /\ proms[g].p = d
                                          /\ proms[g].bid = s /\ proms[g].st = "ok"})
                    + Cardinality(AcquiredBy(d, s))

\* Nothing has failed, and the application calls only Providers that
\* declare dependencies.
DependentsOnly ==
    /\ \A i \in Ids : proms[i].st # "fail"
    /\ \A i \in TopCalls : HasDeps(config[proms[i].p])

\* Build b has been destroyed, or its destroy has disposed of the
\* dependencies.
Released(b) ==
    \E t \in Teardowns : proms[t].w = b /\ (proms[t].st = "ok" \/ proms[t].ds # << >>)

\* The names under which the builds for scope s that have got their
\* dependencies, and were not destroyed, declare Provider d.
HeldBy(d, s) ==
    {x \in Builds \X (1..MaxDeps) :
        /\ proms[x[1]].bid = s
        /\ x[2] <= Len(proms[x[1]].ch)
        /\ proms[proms[proms[x[1]].ch[x[2]]].w].k = "build"
        /\ config[proms[x[1]].p].deps[x[2]].key = d
        /\ ~Released(x[1])}

\* C37: dependency reference counts are balanced over a Provider's
\* build/destroy cycle.  While nothing fails and the application calls the
\* dependents only, the count for S of a Provider that is a dependency is
\* the number of names under which builds for S that were made and not
\* destroyed declare it: each build raises it by one per name however many
\* gets share the build, each completed destroy of the build lowers it by
\* as much, and after a build and its destroy it is what it was.
C37_DepCountsBalanced ==
    DependentsOnly =>
        \A d \in {p \in Providers : ~HasDeps(config[p])} : \A s \in CoreIds :
            CountOf(counts[d], s) = Cardinality(HeldBy(d, s))

\* get('a'), get('a') and destroy('a') of svc: the two gets shared one build,
\* which raised the count of db to 1, and the destroy disposed of db, which
\* was destroyed too: its count is back to none.
C37_Witness ==
    /\ DependentsOnly /\ AllReturned
    /\ Len(TopSeq) = 3
    /\ \A i \in 1..3 : proms[TopSeq[i]].p = "svc" /\ proms[TopSeq[i]].st = "ok"
    /\ proms[TopSeq[1]].k = "get" /\ proms[TopSeq[2]].k = "get"
    /\ proms[TopSeq[2]].w = proms[TopSeq[1]].w
    /\ proms[TopSeq[3]].k = "destroy"
    /\ Released(proms[TopSeq[1]].w)
    /\ Len(proms[proms[TopSeq[1]].w].ch) = 1
    /\ counts["db"] = EmptyMap

\* No destroy has gone past awaiting build b.
NotTornDown(b) == \A t \in Teardowns : proms[t].w = b => proms[t].pc = "t_inst"

C39_AcquisitionFailureReleases ==
    \A u \in Kind("useall") :
        (Settled(u) /\ ~proms[u].run /\ proms[u].ch # << >>) =>
            LET ch == proms[u].ch
                ds == proms[u].ds
            IN /\ proms[u].st = "fail" /\ proms[u].fnres = "none"
               /\ \A n \in 1..Len(ch) :
                     (Returns(ch[n]) /\ Outcome(ch[n]) = "ok") =>
                         \E m \in 1..Len(ds) :
                             /\ proms[ds[m]].k = "dispose"
                             /\ proms[ds[m]].p = proms[ch[n]].p
                             /\ proms[ds[m]].bid = proms[ch[n]].bid
               /\ (TopSeq = <<u>> /\ \A i \in Ids : Returns(i)) =>
                     \A p \in Providers : \A sc \in DOMAIN counts[p] : counts[p][sc] = 0

====
